---- MODULE Spec2Model ----
(***************************************************************************)
(* A model of o-dns: the access lists (Denylist, Hosts), the response      *)
(* cache, the per-query pipeline of Resolver::resolve_query and the worker *)
(* pool of DnsServer.                                                      *)
(*                                                                         *)
(* Names are sequences of one-character strings, so that str::split('.')   *)
(* and str::splitn are modelled by what they do.  The 128-bit hashes are   *)
(* modelled by the byte string that is hashed (SHA-1 is taken to be        *)
(* injective on the inputs of the model: collisions are not modelled).     *)
(***************************************************************************)
EXTENDS Integers, Sequences, FiniteSets, TLC

VARIABLES
    denylist,     \* State.denylist : [entries : set of hashes, regexes : Seq([id, re])]
    hosts,        \* State.hosts    : Hosts.map, a function hash -> Seq(ResourceData)
    cache,        \* State.cache    : [query_cache, rr_cache], functions hash -> entry
    now,          \* the monotonic clock, in whole seconds
    server,       \* DnsServer::block_until_completion: "running" or "completed"
    workers,      \* DnsServer.workers: the state of each handle_incoming_requests task
    handlers,     \* the resolve_query tasks in the JoinSets of the workers
    command_rx,   \* the commands sent to the server and not yet received
    history,      \* what happened so far: counters and the origin of cache entries
    probe         \* result of the last membership lookup applied to the lists

server_vars == <<cache, now, server, workers, handlers, command_rx, history>>

vars == <<denylist, hosts, cache, now, server, workers, handlers, command_rx, history, probe>>

----------------------------------------------------------------------------
(* Bounds of the model *)

MaxNameLen == 3         \* longest query name (in characters) looked up in the lists
MaxDenyEntries == 1     \* most hashed domains held by the denylist of SpecDenylist
MaxRegexes == 1         \* most regexes held by the denylist of SpecDenylist
MaxHostRecords == 2     \* most records stored under one hosts key in SpecHosts
NWorkers == 2           \* worker tasks (max_parallel_connections)
MaxInFlight == 2        \* most resolve_query tasks alive at once
MaxQueries == 3         \* most inbound messages accepted in a run
MaxCommands == 2        \* most commands sent to the server in a run
TickStep == 15          \* seconds the clock advances at a time
MaxTime == 30           \* the clock stops here
LongLabels == 8         \* labels of the long query name of SpecUpstream
LongLabelLen == 60      \* bytes of each of those labels
MaxEncodeSize == 100    \* the largest max_size given to the encoder
MaxQnames == 3          \* names written into one buffer in SpecQname
MaxAnswers == 7         \* answers of the largest upstream reply of SpecRespond
MaxLockQueries == 2     \* query subtasks of SpecLocks
MaxLockCommands == 2    \* commands processed in SpecLocks
MaxArrivals == 4        \* datagrams and TCP connections arriving in SpecAccept
MaxReceived == 3        \* messages a worker reads into its buffer in SpecRecv

----------------------------------------------------------------------------
(* Strings *)

Chars == {"a", "A", "."}

\* All strings over Chars of length at most n.
StringsUpTo(n) == UNION {[1..k -> Chars] : k \in 0..n}

ListNames == StringsUpTo(MaxNameLen)

\* u8::make_ascii_lowercase / str::to_ascii_lowercase
to_ascii_lowercase(s) == [i \in 1..Len(s) |-> IF s[i] = "A" THEN "a" ELSE s[i]]

Last(s) == s[Len(s)]

\* Option<T>: None is the empty sequence, Some(x) the sequence holding x.
None == <<>>
Some(x) == <<x>>

HasDot(s) == \E i \in 1..Len(s) : s[i] = "."

FirstDot(s) == CHOOSE i \in 1..Len(s) : s[i] = "." /\ \A j \in 1..(i - 1) : s[j] # "."

\* str::split('.'): every label, the empty ones included; "" gives one empty label.
RECURSIVE split(_)
split(s) ==
    IF ~HasDot(s) THEN <<s>>
    ELSE CHOOSE labels \in
            {<<SubSeq(s, 1, FirstDot(s) - 1)>> \o split(rest) :
                rest \in {SubSeq(s, FirstDot(s) + 1, Len(s))}} : TRUE

\* str::splitn(n, '.'): at most n items, the last one holding the remainder.
RECURSIVE splitn(_, _)
splitn(s, n) ==
    IF n = 0 THEN <<>>
    ELSE IF n = 1 \/ ~HasDot(s) THEN <<s>>
    ELSE CHOOSE items \in
            {<<SubSeq(s, 1, FirstDot(s) - 1)>> \o splitn(rest, n - 1) :
                rest \in {SubSeq(s, FirstDot(s) + 1, Len(s))}} : TRUE

\* Whether pat occurs in s as a substring.
Contains(s, pat) ==
    \E i \in 0..(Len(s) - Len(pat)) : SubSeq(s, i + 1, i + Len(pat)) = pat

----------------------------------------------------------------------------
(* Hashing and regexes *)

NoPrefix == <<>>
WildcardPrefix == <<"*", ".">>

\* hash_to_u128(data, prefix): SHA-1 over prefix followed by data.
hash_to_u128(data, prefix) == prefix \o data

\* Regex::is_match is an unanchored search; the regexes of the model are literals.
is_match(re, qname) == Contains(qname, re)

RegexPool == {<<"a", ".">>}
RegexIds == {1, 2}

----------------------------------------------------------------------------
(* access_lists/util.rs *)

find_wildcard_parts_no_skip(qname) ==
    LET labels == split(qname)
        idxs == SelectSeq([k \in 1..Len(labels) |-> k - 1],
                          LAMBDA idx : labels[idx + 1] # <<>>)
    IN [i \in 1..Len(idxs) |-> Last(splitn(qname, idxs[i] + 1))]

\* The suffixes of qname that start at a non-empty label other than the first,
\* longest first.  idx is the 0-based index of enumerate().
find_wildcard_parts(qname) ==
    LET labels == split(qname)
        idxs == SelectSeq([k \in 1..(Len(labels) - 1) |-> k],
                          LAMBDA idx : labels[idx + 1] # <<>>)
    IN [i \in 1..Len(idxs) |-> Last(splitn(qname, idxs[i] + 1))]

----------------------------------------------------------------------------
(* access_lists/denylist.rs *)

EmptyDenylist == [entries |-> {}, regexes |-> <<>>]

Denylist_add_entry(dl, qname_hash) == [dl EXCEPT !.entries = @ \cup {qname_hash}]

Denylist_remove_entry(dl, qname_hash) == [dl EXCEPT !.entries = @ \ {qname_hash}]

add_regex(dl, id, re) == [dl EXCEPT !.regexes = Append(@, [id |-> id, re |-> re])]

remove_regex(dl, id_to_delete) ==
    [dl EXCEPT !.regexes = SelectSeq(@, LAMBDA r : r.id # id_to_delete)]

Denylist_find_wildcard_match(dl, qname) ==
    LET parts == find_wildcard_parts(qname)
    IN \E i \in 1..Len(parts) : hash_to_u128(parts[i], WildcardPrefix) \in dl.entries

contains_entry(dl, qname) ==
    IF hash_to_u128(qname, NoPrefix) \in dl.entries THEN TRUE
    ELSE IF Denylist_find_wildcard_match(dl, qname) THEN TRUE
    ELSE \E i \in 1..Len(dl.regexes) : is_match(dl.regexes[i].re, qname)

----------------------------------------------------------------------------
(* access_lists/hosts.rs *)

\* QueryType: the named variants, and UNKNOWN(code).
QT(tag) == [tag |-> tag, code |-> 0]
UNKNOWN(code) == [tag |-> "UNKNOWN", code |-> code]
TypeA == QT("A")
TypeNS == QT("NS")
TypeCNAME == QT("CNAME")
TypeAAAA == QT("AAAA")
TypeOPT == QT("OPT")
TypeANY == QT("ANY")

\* impl From<QueryType> for u16
qtype_to_u16(qt) ==
    CASE qt.tag = "A" -> 1
      [] qt.tag = "NS" -> 2
      [] qt.tag = "CNAME" -> 5
      [] qt.tag = "AAAA" -> 28
      [] qt.tag = "OPT" -> 41
      [] qt.tag = "ANY" -> 255
      [] OTHER -> qt.code

\* ResourceData: the variant is told by the query type it answers.
RecordA(address) == [qtype |-> TypeA, data |-> address]
RecordAAAA(address) == [qtype |-> TypeAAAA, data |-> address]
RecordCNAME(cname) == [qtype |-> TypeCNAME, data |-> cname]
RecordNS(ns_domain_name) == [qtype |-> TypeNS, data |-> ns_domain_name]
RecordOPT == [qtype |-> TypeOPT, data |-> None]

\* ResourceData::get_query_type
get_query_type(rdata) == rdata.qtype

EmptyHosts == <<>>

\* Ok(map') for A/AAAA/CNAME, Err otherwise (the map is left as it was).
Hosts_add_entry(map, qname_hash, rdata) ==
    IF get_query_type(rdata) \in {TypeA, TypeAAAA, TypeCNAME}
    THEN [ok |-> TRUE,
          map |-> IF qname_hash \in DOMAIN map
                  THEN [map EXCEPT ![qname_hash] = Append(@, rdata)]
                  ELSE [h \in DOMAIN map \cup {qname_hash} |->
                            IF h = qname_hash THEN <<rdata>> ELSE map[h]]]
    ELSE [ok |-> FALSE, map |-> map]

\* The key stays in the map, possibly with no record left.
Hosts_remove_entry(map, qname_hash, qtype) ==
    IF qname_hash \in DOMAIN map
    THEN [map EXCEPT ![qname_hash] = SelectSeq(@, LAMBDA rr : get_query_type(rr) # qtype)]
    ELSE map

Hosts_find_wildcard_match(map, qname) ==
    LET parts == find_wildcard_parts(qname)
        hits == SelectSeq(parts, LAMBDA part : hash_to_u128(part, WildcardPrefix) \in DOMAIN map)
    IN IF hits = <<>> THEN None ELSE Some(map[hash_to_u128(hits[1], WildcardPrefix)])

\* Some(records) or None
get_entry(map, qname) ==
    IF hash_to_u128(qname, NoPrefix) \in DOMAIN map
    THEN Some(map[hash_to_u128(qname, NoPrefix)])
    ELSE Hosts_find_wildcard_match(map, qname)

----------------------------------------------------------------------------
(* o-dns-lib: packets *)

IN_CLASS == 1
DEFAULT_EDNS_BUF_CAPACITY == 1232
MAX_STANDARD_DNS_MSG_SIZE == 512
EDNS_DO_BIT == 32768

\* Question::new
Question(qname, query_type) == [qname |-> qname, query_type |-> query_type, qclass |-> IN_CLASS]

\* ResourceRecord::new(name, resource_data, ttl, class)
ResourceRecord(name, resource_data, ttl, class) ==
    [name |-> name, class |-> class, ttl |-> ttl, resource_data |-> resource_data]

\* ResourceRecord::get_edns_data: the payload size is the class, the DO bit the
\* top bit of the third byte of the ttl.
get_edns_data(rr) ==
    IF get_query_type(rr.resource_data) = TypeOPT
    THEN Some([udp_payload_size |-> rr.class,
               dnssec_ok_bit |-> ((rr.ttl \div 256) % 256) \div 128 = 1])
    ELSE None

\* packet.edns.and_then(|idx| packet.additionals.get(idx).and_then(get_edns_data));
\* idx counts from 0.
packet_edns_data(packet) ==
    IF packet.edns = None THEN None
    ELSE IF packet.edns[1] + 1 \in 1..Len(packet.additionals)
         THEN get_edns_data(packet.additionals[packet.edns[1] + 1])
         ELSE None

\* DnsHeader::default
DefaultHeader ==
    [id |-> 0, is_response |-> FALSE, is_authoritative |-> FALSE, truncation |-> FALSE,
     recursion_desired |-> FALSE, recursion_available |-> FALSE,
     z |-> <<FALSE, FALSE, FALSE>>, response_code |-> "Success",
     question_count |-> 0, answer_rr_count |-> 0,
     authority_rr_count |-> 0, additional_rr_count |-> 0]

\* DnsPacket::new
NewDnsPacket ==
    [header |-> DefaultHeader, edns |-> None, questions |-> <<>>, answers |-> <<>>,
     authorities |-> <<>>, additionals |-> <<>>]

\* util::get_edns_rr(buf_size, options, flags): the flags travel in the ttl.
get_edns_rr(buf_size, flags) ==
    ResourceRecord(<<>>, RecordOPT, IF flags = None THEN 0 ELSE flags[1], buf_size)

\* util::get_response_dns_packet(request_packet, None); request is an Option.
get_response_dns_packet(request) ==
    LET base == [NewDnsPacket EXCEPT !.header.is_response = TRUE,
                                     !.header.recursion_available = TRUE]
    IN IF request = None THEN base
       ELSE LET req == request[1]
                copied == [base EXCEPT !.header.id = req.header.id,
                                       !.header.recursion_desired = req.header.recursion_desired,
                                       !.header.z[3] = req.header.z[3]]
                edns_data == packet_edns_data(req)
            IN IF edns_data = None THEN copied
               ELSE [copied EXCEPT
                        !.additionals = Append(@, get_edns_rr(DEFAULT_EDNS_BUF_CAPACITY,
                            IF edns_data[1].dnssec_ok_bit THEN Some(EDNS_DO_BIT) ELSE None)),
                        !.header.additional_rr_count = @ + 1,
                        !.edns = Some(0)]

\* util::get_dns_query_hash: SHA-1 over qname, type and class.
get_dns_query_hash(question) ==
    <<question.qname, qtype_to_u16(question.query_type), question.qclass>>

\* util::is_dnssec_qtype: DS, RRSIG, NSEC, DNSKEY, NSEC3
is_dnssec_qtype(qtype) == qtype \in {43, 46, 47, 48, 50}

Min(S) == CHOOSE x \in S : \A y \in S : x <= y

NonOptRecords(section) ==
    SelectSeq(section, LAMBDA rr : get_query_type(rr.resource_data) # TypeOPT)

\* get_minimum_ttl_for_packet, were it not to filter the OPT records out.
get_minimum_ttl_for_packet_with_opt(packet) ==
    LET rrs == packet.answers \o packet.authorities \o packet.additionals
    IN IF rrs = <<>> THEN None ELSE Some(Min({rrs[i].ttl : i \in 1..Len(rrs)}))

\* util::get_minimum_ttl_for_packet
get_minimum_ttl_for_packet(packet) ==
    LET rrs == NonOptRecords(packet.answers \o packet.authorities \o packet.additionals)
    IN IF rrs = <<>> THEN None ELSE Some(Min({rrs[i].ttl : i \in 1..Len(rrs)}))

\* util::get_caching_duration_for_packet
get_caching_duration_for_packet(packet) ==
    CASE packet.header.response_code = "Success" ->
            IF get_minimum_ttl_for_packet(packet) = None THEN 60 * 5
            ELSE get_minimum_ttl_for_packet(packet)[1]
      [] packet.header.response_code \in {"Refused", "NameError"} -> 60
      [] packet.header.response_code = "ServerFailure" -> 30
      [] packet.header.response_code = "NotImplemented" -> 60 * 5
      [] OTHER -> 0

\* LinkedHashMap::insert: the value under an existing key is replaced.
MapInsert(map, key, value) ==
    [k \in DOMAIN map \cup {key} |-> IF k = key THEN value ELSE map[k]]

\* buf.rs, write_qname: `label.len() > 0x3f`
MAX_LABEL_LEN == 63

\* str::as_bytes, on the characters the names of the model are made of
as_bytes(s) ==
    [i \in 1..Len(s) |->
        CASE s[i] = "." -> 46 [] s[i] = "A" -> 65 [] s[i] = "a" -> 97 [] s[i] = "b" -> 98
          [] s[i] = "c" -> 99 [] s[i] = "n" -> 110 [] s[i] = "s" -> 115]

\* str::from_utf8: Some(string), or None for bytes that are not UTF-8.  The
\* buffers of the model hold no multi-byte character, so a byte of 128 or more
\* is not UTF-8.
from_utf8(bytes) ==
    IF \E i \in 1..Len(bytes) : bytes[i] >= 128 THEN None
    ELSE Some([i \in 1..Len(bytes) |->
                CASE bytes[i] = 46 -> "." [] bytes[i] = 65 -> "A" [] bytes[i] = 97 -> "a"
                  [] bytes[i] = 98 -> "b" [] bytes[i] = 99 -> "c" [] bytes[i] = 110 -> "n"
                  [] bytes[i] = 115 -> "s" [] OTHER -> "?"])

\* u16::to_be_bytes and u16::from_be_bytes at position pos (from 0) of a buffer
u16_to_be_bytes(v) == <<(v \div 256) % 256, v % 256>>
peek_u16(buf, pos) == buf[pos + 1] * 256 + buf[pos + 2]

\* Ipv4Addr::octets / Ipv6Addr::octets of the addresses of the model
octets(address) ==
    LET Zeros(n) == [i \in 1..n |-> 0]
    IN CASE address = "0.0.0.0" -> <<0, 0, 0, 0>>
         [] address = "10.0.0.1" -> <<10, 0, 0, 1>>
         [] address = "10.0.0.2" -> <<10, 0, 0, 2>>
         [] address = "192.0.2.1" -> <<192, 0, 2, 1>>
         [] address = "::" -> Zeros(16)
         [] address = "::1" -> Zeros(15) \o <<1>>
         [] address = "fd00::1" -> <<253>> \o Zeros(14) \o <<1>>

\* Ipv4Addr::from([u8; 4]) / Ipv6Addr::from([u8; 16])
from_octets(raw) ==
    LET known == {"0.0.0.0", "10.0.0.1", "10.0.0.2", "192.0.2.1", "::", "::1", "fd00::1"}
    IN IF \E a \in known : octets(a) = raw
       THEN CHOOSE a \in known : octets(a) = raw
       ELSE "other"

\* get_max_encoded_qname_size that counts two bytes for any name as soon as
\* the label cache holds some name.
get_max_encoded_qname_size_any_cached(qname, label_cache) ==
    LET labels == split(qname)
        size[i \in 1..(Len(labels) + 1)] ==
            IF i > Len(labels) THEN 1
            ELSE IF labels[i] = <<>> THEN size[i + 1]
            ELSE IF DOMAIN label_cache # {} THEN 2
            ELSE 1 + Len(labels[i]) + size[i + 1]
    IN size[1]

\* utils::get_max_encoded_qname_size(qname, label_cache).  A label cache maps
\* the names written so far to the buffer positions they start at; the cache
\* None is the empty map.
get_max_encoded_qname_size(qname, label_cache) ==
    LET labels == split(qname)
        size[i \in 1..(Len(labels) + 1)] ==
            IF i > Len(labels) THEN 1
            ELSE IF labels[i] = <<>> THEN size[i + 1]
            ELSE IF Last(splitn(qname, i)) \in DOMAIN label_cache THEN 2
            ELSE 1 + Len(labels[i]) + size[i + 1]
    IN size[1]

\* ByteBuf::write_qname(qname, Some(label_cache)) on the buffer buf:
\* [ok, len, buf, label_cache].  len is total_qname_length, the number of
\* bytes written; Err (ok = FALSE) for a label of more than 63 bytes.
write_qname(buf, qname, label_cache) ==
    LET labels == split(qname)
        w[i \in 1..(Len(labels) + 1)] ==
            IF i > Len(labels) THEN [bail |-> FALSE, bytes |-> <<>>, used_cache |-> FALSE]
            ELSE IF Len(labels[i]) > MAX_LABEL_LEN
            THEN [bail |-> TRUE, bytes |-> <<>>, used_cache |-> FALSE]
            ELSE IF labels[i] = <<>> THEN w[i + 1]
            ELSE IF Last(splitn(qname, i)) \in DOMAIN label_cache
            THEN [bail |-> FALSE, used_cache |-> TRUE,
                  \* 0xc000 | (*offset as u16)
                  bytes |-> u16_to_be_bytes(49152 + (label_cache[Last(splitn(qname, i))] % 16384))]
            ELSE [w[i + 1] EXCEPT !.bytes = <<Len(labels[i])>> \o as_bytes(labels[i]) \o @]
    IN CHOOSE written \in
        {[ok |-> ~all.bail,
          len |-> IF all.used_cache \/ all.bail THEN Len(all.bytes) ELSE Len(all.bytes) + 1,
          buf |-> buf \o all.bytes
                    \o (IF all.used_cache \/ all.bail THEN <<>> ELSE <<0>>),
          label_cache |-> IF Len(all.bytes) > 0 /\ ~all.bail
                          THEN MapInsert(label_cache, qname, Len(buf))
                          ELSE label_cache] : all \in {w[1]}} : TRUE

\* The loop of ByteBuf::read_qname.  s: [pos, self_pos, jumped, labels, jumps]
\* with self_pos the buffer's own position and jumps the pointers followed.
\* A chain of more pointers than the buffer has bytes comes back to a pointer
\* it has followed: the loop then never ends (hangs).
RECURSIVE read_qname_loop(_, _)
read_qname_loop(buf, s) ==
    LET Err == [ok |-> FALSE, hangs |-> FALSE]
        Again(next) == CHOOSE r \in {read_qname_loop(buf, n) : n \in {next}} : TRUE
        label_length == buf[s.pos + 1]
        pos == s.pos + 1
        label == from_utf8(SubSeq(buf, pos + 1, pos + label_length))
        labels == IF label_length # 0 THEN Append(s.labels, label[1]) ELSE s.labels
        self_pos == IF s.jumped THEN s.self_pos ELSE pos + label_length
        join[i \in 0..Len(labels)] ==
            IF i = 0 THEN <<>>
            ELSE IF i = 1 THEN labels[1]
            ELSE join[i - 1] \o <<".">> \o labels[i]
    IN IF Len(buf) < s.pos + 1 THEN Err
       ELSE IF label_length >= 192
       THEN IF Len(buf) < s.pos + 2 THEN Err
            ELSE IF s.jumps > Len(buf) THEN [ok |-> FALSE, hangs |-> TRUE]
            ELSE Again([pos |-> (label_length - 192) * 256 + buf[s.pos + 2],
                        self_pos |-> IF s.jumped THEN s.self_pos ELSE s.self_pos + 2,
                        jumped |-> TRUE, labels |-> s.labels, jumps |-> s.jumps + 1])
       ELSE IF label_length # 0 /\ pos + label_length > Len(buf) THEN Err
       ELSE IF label_length # 0 /\ label = None THEN Err
       ELSE IF label_length = 0
       THEN [ok |-> TRUE, hangs |-> FALSE, qname |-> join[Len(labels)], pos |-> self_pos]
       ELSE Again([pos |-> pos + label_length, self_pos |-> self_pos,
                   jumped |-> s.jumped, labels |-> labels, jumps |-> s.jumps])

\* ByteBuf::read_qname with the buffer at position pos:
\* [ok, hangs, qname, pos], pos the position of the buffer afterwards.
read_qname(buf, pos) ==
    read_qname_loop(buf, [pos |-> pos, self_pos |-> pos, jumped |-> FALSE,
                          labels |-> <<>>, jumps |-> 0])

\* Question::encode_to_buf_with_cache on the buffer buf:
\* [ok, encoded_size, buf, label_cache].  encoded_size is what the call
\* returns, 0 when the question does not fit max_size (an Option).
Question_encode(buf, question, label_cache, max_size) ==
    LET encoded_size == get_max_encoded_qname_size(question.qname, label_cache) + 2 + 2
    IN IF max_size # None /\ encoded_size > max_size[1]
       THEN [ok |-> TRUE, encoded_size |-> 0, buf |-> buf, label_cache |-> label_cache]
       ELSE CHOOSE enc \in
            {[ok |-> qname.ok, encoded_size |-> encoded_size,
              buf |-> IF qname.ok
                      THEN qname.buf \o u16_to_be_bytes(qtype_to_u16(question.query_type))
                                \o u16_to_be_bytes(question.qclass)
                      ELSE qname.buf,
              label_cache |-> qname.label_cache] :
                qname \in {write_qname(buf, question.qname, label_cache)}} : TRUE

\* impl From<u16> for QueryType
qtype_from_u16(value) ==
    CASE value = 1 -> TypeA
      [] value = 2 -> TypeNS
      [] value = 5 -> TypeCNAME
      [] value = 28 -> TypeAAAA
      [] value = 41 -> TypeOPT
      [] value = 255 -> TypeANY
      [] OTHER -> UNKNOWN(value)

\* Question::from_buf with the buffer at position pos: [ok, hangs, question, pos]
Question_from_buf(buf, pos) ==
    CHOOSE read \in
        {IF ~qname.ok THEN qname
         ELSE IF Len(buf) < qname.pos + 4 THEN [ok |-> FALSE, hangs |-> FALSE]
         ELSE [ok |-> TRUE, hangs |-> FALSE, pos |-> qname.pos + 4,
               question |-> [qname |-> qname.qname,
                             query_type |-> qtype_from_u16(peek_u16(buf, qname.pos)),
                             qclass |-> peek_u16(buf, qname.pos + 2)]] :
            qname \in {read_qname(buf, pos)}} : TRUE

\* ResourceData::encode_to_buf_with_cache: RDLENGTH and RDATA appended to
\* buf; [ok, buf, label_cache].  The options of an OPT record are a map from
\* option codes to byte strings, written in the order of their codes.
ResourceData_encode(buf, resource_data, label_cache) ==
    LET qt == get_query_type(resource_data)
        data == resource_data.data
        options == IF data = None THEN <<>> ELSE data[1]
        codes == CHOOSE seq \in [1..Cardinality(DOMAIN options) -> DOMAIN options] :
                    \A i, j \in DOMAIN seq : i < j => seq[i] < seq[j]
        opts[i \in 0..Len(codes)] ==
            IF i = 0 THEN <<>>
            ELSE opts[i - 1] \o u16_to_be_bytes(codes[i])
                    \o u16_to_be_bytes(Len(options[codes[i]])) \o options[codes[i]]
    IN CASE qt = TypeA ->
                [ok |-> TRUE, buf |-> buf \o u16_to_be_bytes(4) \o octets(data),
                 label_cache |-> label_cache]
         [] qt = TypeAAAA ->
                [ok |-> TRUE, buf |-> buf \o u16_to_be_bytes(16) \o octets(data),
                 label_cache |-> label_cache]
         [] qt \in {TypeNS, TypeCNAME} ->
                CHOOSE enc \in
                    {[ok |-> name.ok, label_cache |-> name.label_cache,
                      \* the stub RDLENGTH is set to the length of the name
                      buf |-> buf \o u16_to_be_bytes(name.len)
                                \o SubSeq(name.buf, Len(buf) + 3, Len(name.buf))] :
                        name \in {write_qname(buf \o <<0, 0>>, data, label_cache)}} : TRUE
         [] qt = TypeOPT ->
                [ok |-> TRUE, label_cache |-> label_cache,
                 buf |-> buf \o u16_to_be_bytes(Len(opts[Len(codes)])) \o opts[Len(codes)]]
         [] OTHER ->
                [ok |-> TRUE, buf |-> buf \o u16_to_be_bytes(Len(data)) \o data,
                 label_cache |-> label_cache]

\* ResourceRecord::encode_to_buf_with_cache without a max_size: NAME, TYPE,
\* CLASS, TTL and the resource data appended to buf; [ok, buf, label_cache].
ResourceRecord_write(buf, rr, label_cache) ==
    CHOOSE enc \in
        {IF ~name.ok THEN [ok |-> FALSE, buf |-> name.buf, label_cache |-> name.label_cache]
         ELSE ResourceData_encode(
                name.buf \o u16_to_be_bytes(qtype_to_u16(get_query_type(rr.resource_data)))
                    \o u16_to_be_bytes(rr.class)
                    \o u16_to_be_bytes(rr.ttl \div 65536) \o u16_to_be_bytes(rr.ttl % 65536),
                rr.resource_data, name.label_cache) :
            name \in {write_qname(buf, rr.name, label_cache)}} : TRUE

\* ResourceData::get_encoded_size(label_cache): RDLENGTH and RDATA
rdata_size(resource_data, label_cache) ==
    2 + (CASE get_query_type(resource_data) = TypeA -> 4
           [] get_query_type(resource_data) = TypeAAAA -> 16
           [] get_query_type(resource_data) \in {TypeNS, TypeCNAME} ->
                get_max_encoded_qname_size(resource_data.data, label_cache)
           [] get_query_type(resource_data) = TypeOPT ->
                Len(ResourceData_encode(<<>>, resource_data, <<>>).buf) - 2
           [] OTHER -> Len(resource_data.data))

\* ResourceRecord::get_encoded_size(label_cache): NAME, TYPE, CLASS, TTL, RDATA
rr_get_encoded_size(rr, label_cache) ==
    get_max_encoded_qname_size(rr.name, label_cache) + 2 + 2 + 4
        + rdata_size(rr.resource_data, label_cache)

\* ResourceRecord::encode_to_buf_with_cache with a max_size, as
\* Question_encode: [ok, encoded_size, buf, label_cache].
ResourceRecord_encode(buf, rr, label_cache, max_size) ==
    LET encoded_size == rr_get_encoded_size(rr, label_cache)
    IN IF max_size # None /\ encoded_size > max_size[1]
       THEN [ok |-> TRUE, encoded_size |-> 0, buf |-> buf, label_cache |-> label_cache]
       ELSE CHOOSE enc \in
            {[ok |-> written.ok, encoded_size |-> encoded_size, buf |-> written.buf,
              label_cache |-> written.label_cache] :
                written \in {ResourceRecord_write(buf, rr, label_cache)}} : TRUE

\* ResourceRecord::from_buf with the buffer at position pos: [ok, hangs, rr, pos]
ResourceRecord_from_buf(buf, pos) ==
    LET Err == [ok |-> FALSE, hangs |-> FALSE]
        Ok(name, at, resource_data, end) ==
            [ok |-> TRUE, hangs |-> FALSE, pos |-> end,
             rr |-> [name |-> name, class |-> peek_u16(buf, at + 2),
                     ttl |-> peek_u16(buf, at + 4) * 65536 + peek_u16(buf, at + 6),
                     resource_data |-> resource_data]]
        \* the options of an OPT record, read from position p on while
        \* remaining_rd_length is not 0: Some(map) or None for an Err
        RECURSIVE Options(_, _, _)
        Options(p, remaining_rd_length, options) ==
            IF remaining_rd_length = 0 THEN Some(options)
            ELSE IF Len(buf) < p + 4 THEN None
            ELSE IF Len(buf) < p + 4 + peek_u16(buf, p + 2) THEN None
            \* `remaining_rd_length -= 4 + option_length` below 0
            ELSE IF remaining_rd_length < 4 + peek_u16(buf, p + 2) THEN None
            ELSE Options(p + 4 + peek_u16(buf, p + 2),
                         remaining_rd_length - (4 + peek_u16(buf, p + 2)),
                         MapInsert(options, peek_u16(buf, p),
                                   SubSeq(buf, p + 5, p + 4 + peek_u16(buf, p + 2))))
        \* ResourceData::from_buf_with_type, the name read and at its end
        Data(name, at) ==
            LET query_type == qtype_from_u16(peek_u16(buf, at))
                rd_length == peek_u16(buf, at + 8)
                rdata == at + 10
                target == read_qname(buf, rdata)
                options == Options(rdata, rd_length, <<>>)
            IN CASE query_type = TypeA ->
                        IF rd_length # 4 \/ Len(buf) < rdata + 4 THEN Err
                        ELSE Ok(name, at, RecordA(from_octets(SubSeq(buf, rdata + 1, rdata + 4))),
                                rdata + 4)
                 [] query_type = TypeAAAA ->
                        IF rd_length # 16 \/ Len(buf) < rdata + 16 THEN Err
                        ELSE Ok(name, at,
                                RecordAAAA(from_octets(SubSeq(buf, rdata + 1, rdata + 16))),
                                rdata + 16)
                 [] query_type \in {TypeNS, TypeCNAME} ->
                        IF ~target.ok THEN target
                        ELSE Ok(name, at, [qtype |-> query_type, data |-> target.qname],
                                target.pos)
                 [] query_type = TypeOPT ->
                        IF options = None THEN Err
                        ELSE Ok(name, at,
                                [qtype |-> TypeOPT,
                                 data |-> IF options[1] = <<>> THEN None ELSE options],
                                rdata + rd_length)
                 [] query_type = TypeANY -> Err
                 [] OTHER ->
                        IF Len(buf) < rdata + rd_length THEN Err
                        ELSE Ok(name, at,
                                [qtype |-> query_type,
                                 data |-> SubSeq(buf, rdata + 1, rdata + rd_length)],
                                rdata + rd_length)
    IN CHOOSE read \in
        {IF ~name.ok THEN name
         ELSE IF Len(buf) < name.pos + 10 THEN Err
         ELSE Data(name.qname, name.pos) : name \in {read_qname(buf, pos)}} : TRUE

\* DnsHeader::get_flags; every header of the model has the opcode Query (0).
get_flags(header) ==
    LET Bit(b) == IF b THEN 1 ELSE 0
        \* ResponseCode as u8
        rcode == CASE header.response_code = "Success" -> 0
                   [] header.response_code = "FormatError" -> 1
                   [] header.response_code = "ServerFailure" -> 2
                   [] header.response_code = "NameError" -> 3
                   [] header.response_code = "NotImplemented" -> 4
                   [] header.response_code = "Refused" -> 5
                   [] header.response_code = "Unknown" -> 6
    IN Bit(header.is_response) * 32768 + Bit(header.is_authoritative) * 1024
            + Bit(header.truncation) * 512 + Bit(header.recursion_desired) * 256
            + Bit(header.recursion_available) * 128 + Bit(header.z[1]) * 64
            + Bit(header.z[2]) * 32 + Bit(header.z[3]) * 16 + rcode

\* The 12 bytes DnsHeader::encode_to_buf writes.
header_to_wire(header) ==
    u16_to_be_bytes(header.id) \o u16_to_be_bytes(get_flags(header))
        \o u16_to_be_bytes(header.question_count) \o u16_to_be_bytes(header.answer_rr_count)
        \o u16_to_be_bytes(header.authority_rr_count)
        \o u16_to_be_bytes(header.additional_rr_count)

\* DnsHeader::from_buf on the first 12 bytes of buf: Some(header), or None
\* when they are not there.  The opcode is not kept.
DnsHeader_from_buf(buf) ==
    LET flags == peek_u16(buf, 2)
        Bit(n) == (flags \div n) % 2 = 1
        rcode == flags % 16
    IN IF Len(buf) < 12 THEN None
       ELSE Some([id |-> peek_u16(buf, 0), is_response |-> Bit(32768),
                  is_authoritative |-> Bit(1024), truncation |-> Bit(512),
                  recursion_desired |-> Bit(256), recursion_available |-> Bit(128),
                  z |-> <<Bit(64), Bit(32), Bit(16)>>,
                  response_code |-> CASE rcode = 0 -> "Success"
                                      [] rcode = 1 -> "FormatError"
                                      [] rcode = 2 -> "ServerFailure"
                                      [] rcode = 3 -> "NameError"
                                      [] rcode = 4 -> "NotImplemented"
                                      [] rcode = 5 -> "Refused"
                                      [] OTHER -> "Unknown",
                  question_count |-> peek_u16(buf, 4), answer_rr_count |-> peek_u16(buf, 6),
                  authority_rr_count |-> peek_u16(buf, 8),
                  additional_rr_count |-> peek_u16(buf, 10)])

\* encode_record that leaves the count of the header clone as it is when the
\* record is skipped.
encode_record_count_unchanged(st, section, count, record, i, max_size) ==
    LET is_opt == /\ section = "additionals"
                  /\ get_query_type(record.resource_data) = TypeOPT
        budget == IF max_size = None \/ is_opt THEN None
                  ELSE Some(max_size[1] - st.size)
    IN IF budget # None /\ budget[1] < 0 THEN [st EXCEPT !.ok = FALSE]
       ELSE CHOOSE next \in
                {IF ~enc.ok THEN [st EXCEPT !.ok = FALSE, !.buf = enc.buf]
                 ELSE [st EXCEPT
                        !.label_cache = enc.label_cache,
                        !.buf = enc.buf,
                        !.size = IF is_opt THEN @ ELSE @ + enc.encoded_size,
                        !.truncation = @ \/ enc.encoded_size = 0,
                        !.kept[section] = IF enc.encoded_size = 0 THEN @ ELSE Append(@, i)] :
                 enc \in {IF section = "questions"
                          THEN Question_encode(st.buf, record, st.label_cache, budget)
                          ELSE ResourceRecord_encode(st.buf, record, st.label_cache,
                                                     budget)}} : TRUE

\* encode_record that gives the OPT record the budget of any other record.
encode_record_opt_budgeted(st, section, count, record, i, max_size) ==
    LET budget == IF max_size = None THEN None ELSE Some(max_size[1] - st.size)
    IN IF budget # None /\ budget[1] < 0 THEN [st EXCEPT !.ok = FALSE]
       ELSE CHOOSE next \in
                {IF ~enc.ok THEN [st EXCEPT !.ok = FALSE, !.buf = enc.buf]
                 ELSE [st EXCEPT
                        !.label_cache = enc.label_cache,
                        !.buf = enc.buf,
                        !.size = @ + enc.encoded_size,
                        !.truncation = @ \/ enc.encoded_size = 0,
                        !.header[count] = IF enc.encoded_size = 0 THEN @ - 1 ELSE @,
                        !.kept[section] = IF enc.encoded_size = 0 THEN @ ELSE Append(@, i)] :
                 enc \in {IF section = "questions"
                          THEN Question_encode(st.buf, record, st.label_cache, budget)
                          ELSE ResourceRecord_encode(st.buf, record, st.label_cache,
                                                     budget)}} : TRUE

\* One pass of the body of the four loops of
\* DnsPacket::encode_to_buf_with_cache, on record i of a section.
\* st: [ok, size, buf, label_cache, truncation, header, kept], where size
\* is dns_packet_encoded_size, buf the buffer written to, header the clone
\* whose counts are updated and kept the indices of the records written, by
\* section.  `max_size - dns_packet_encoded_size` is a usize subtraction: the
\* pass fails where it would go below 0.
encode_record(st, section, count, record, i, max_size) ==
    LET is_opt == /\ section = "additionals"
                  /\ get_query_type(record.resource_data) = TypeOPT
        budget == IF max_size = None \/ is_opt THEN None
                  ELSE Some(max_size[1] - st.size)
    IN IF budget # None /\ budget[1] < 0 THEN [st EXCEPT !.ok = FALSE]
       ELSE CHOOSE next \in
                {IF ~enc.ok THEN [st EXCEPT !.ok = FALSE, !.buf = enc.buf]
                 ELSE [st EXCEPT
                        !.label_cache = enc.label_cache,
                        !.buf = enc.buf,
                        !.size = IF is_opt THEN @ ELSE @ + enc.encoded_size,
                        !.truncation = @ \/ enc.encoded_size = 0,
                        !.header[count] = IF enc.encoded_size = 0 THEN @ - 1 ELSE @,
                        !.kept[section] = IF enc.encoded_size = 0 THEN @ ELSE Append(@, i)] :
                 enc \in {IF section = "questions"
                          THEN Question_encode(st.buf, record, st.label_cache, budget)
                          ELSE ResourceRecord_encode(st.buf, record, st.label_cache,
                                                     budget)}} : TRUE

\* One of the four loops, from record i of the section on; an Err ends it.
RECURSIVE encode_section(_, _, _, _, _, _)
encode_section(st, section, count, records, i, max_size) ==
    IF i > Len(records) \/ ~st.ok THEN st
    ELSE CHOOSE done \in
            {encode_section(next, section, count, records, i + 1, max_size) :
                next \in {encode_record(st, section, count, records[i], i, max_size)}} : TRUE

\* encode_to_buf without the check that the OPT record fits next to the
\* header.
encode_to_buf_opt_unchecked(packet, max_size) ==
    LET has_opt == packet.edns # None /\ packet.edns[1] + 1 \in 1..Len(packet.additionals)
        opt_rr_size == IF has_opt
                       THEN rr_get_encoded_size(packet.additionals[packet.edns[1] + 1], <<>>)
                       ELSE 0
        start == [ok |-> TRUE, size |-> 12 + opt_rr_size,
                  buf |-> header_to_wire(packet.header),
                  label_cache |-> <<>>, truncation |-> FALSE, header |-> packet.header,
                  kept |-> [questions |-> <<>>, answers |-> <<>>,
                            authorities |-> <<>>, additionals |-> <<>>]]
        finish(done) ==
            LET buf == IF done.truncation
                       THEN SubSeq(done.buf, 1, 2)
                                \o SubSeq(header_to_wire([done.header EXCEPT
                                                            !.truncation = TRUE]), 3, 12)
                                \o SubSeq(done.buf, 13, Len(done.buf))
                       ELSE done.buf
            IN IF ~done.ok THEN [ok |-> FALSE, written |-> Len(done.buf), buf |-> done.buf]
               ELSE [ok |-> TRUE, size |-> done.size, written |-> Len(buf), buf |-> buf,
                     header |-> [id |-> peek_u16(buf, 0), flags |-> peek_u16(buf, 2),
                                 question_count |-> peek_u16(buf, 4),
                                 answer_rr_count |-> peek_u16(buf, 6),
                                 authority_rr_count |-> peek_u16(buf, 8),
                                 additional_rr_count |-> peek_u16(buf, 10)],
                     kept |-> done.kept, truncation |-> done.truncation]
    IN IF max_size # None /\ max_size[1] < 12 THEN [ok |-> FALSE, written |-> 0, buf |-> <<>>]
       ELSE CHOOSE out \in
            {finish(additionals) :
                additionals \in
                {encode_section(authorities, "additionals", "additional_rr_count",
                                packet.additionals, 1, max_size) :
                    authorities \in
                    {encode_section(answers, "authorities", "authority_rr_count",
                                    packet.authorities, 1, max_size) :
                        answers \in
                        {encode_section(questions, "answers", "answer_rr_count",
                                        packet.answers, 1, max_size) :
                            questions \in
                            {encode_section(st, "questions", "question_count",
                                            packet.questions, 1, max_size) :
                                st \in {start}}}}}} : TRUE

\* DnsPacket::encode_to_buf(packet, max_size) on an empty buffer:
\* [ok, size, written, buf, header, kept, truncation].  size is the returned
\* dns_packet_encoded_size, buf the buffer at the end, written its length and
\* header the twelve header bytes as they stand in it.  An Err (ok = FALSE)
\* leaves the bytes written before it in the buffer.
encode_to_buf(packet, max_size) ==
    LET has_opt == packet.edns # None /\ packet.edns[1] + 1 \in 1..Len(packet.additionals)
        opt_rr_size == IF has_opt
                       THEN rr_get_encoded_size(packet.additionals[packet.edns[1] + 1], <<>>)
                       ELSE 0
        start == [ok |-> TRUE, size |-> 12 + opt_rr_size,
                  buf |-> header_to_wire(packet.header),
                  label_cache |-> <<>>, truncation |-> FALSE, header |-> packet.header,
                  kept |-> [questions |-> <<>>, answers |-> <<>>,
                            authorities |-> <<>>, additionals |-> <<>>]]
        finish(done) ==
            LET buf == IF done.truncation
                       THEN SubSeq(done.buf, 1, 2)
                                \o SubSeq(header_to_wire([done.header EXCEPT
                                                            !.truncation = TRUE]), 3, 12)
                                \o SubSeq(done.buf, 13, Len(done.buf))
                       ELSE done.buf
            IN IF ~done.ok THEN [ok |-> FALSE, written |-> Len(done.buf), buf |-> done.buf]
               ELSE [ok |-> TRUE, size |-> done.size, written |-> Len(buf), buf |-> buf,
                     header |-> [id |-> peek_u16(buf, 0), flags |-> peek_u16(buf, 2),
                                 question_count |-> peek_u16(buf, 4),
                                 answer_rr_count |-> peek_u16(buf, 6),
                                 authority_rr_count |-> peek_u16(buf, 8),
                                 additional_rr_count |-> peek_u16(buf, 10)],
                     kept |-> done.kept, truncation |-> done.truncation]
    IN IF max_size # None /\ max_size[1] < 12 THEN [ok |-> FALSE, written |-> 0, buf |-> <<>>]
       ELSE IF max_size # None /\ opt_rr_size + 12 > max_size[1]
       THEN [ok |-> FALSE, written |-> 0, buf |-> <<>>]
       ELSE CHOOSE out \in
            {finish(additionals) :
                additionals \in
                {encode_section(authorities, "additionals", "additional_rr_count",
                                packet.additionals, 1, max_size) :
                    authorities \in
                    {encode_section(answers, "authorities", "authority_rr_count",
                                    packet.authorities, 1, max_size) :
                        answers \in
                        {encode_section(questions, "answers", "answer_rr_count",
                                        packet.answers, 1, max_size) :
                            questions \in
                            {encode_section(st, "questions", "question_count",
                                            packet.questions, 1, max_size) :
                                st \in {start}}}}}} : TRUE

\* DnsPacket::from_buf on a buffer at position 0: [ok, hangs, packet].  Err
\* (ok = FALSE) when the buffer ends early, when a name or record does not
\* decode and on a second OPT record among the additionals.
DnsPacket_from_buf(buf) ==
    LET header == DnsHeader_from_buf(buf)
        RECURSIVE Read(_, _, _)
        \* count more questions or records of a section, read from
        \* st: [ok, hangs, pos, items, edns]
        Read(section, count, st) ==
            IF count = 0 \/ ~st.ok THEN st
            ELSE CHOOSE read \in
                {IF ~item.ok THEN [st EXCEPT !.ok = FALSE, !.hangs = item.hangs]
                 ELSE IF section = "questions"
                 THEN CHOOSE r \in
                        {Read(section, count - 1, next) :
                            next \in {[st EXCEPT !.pos = item.pos,
                                                 !.items = Append(@, item.question)]}} : TRUE
                 ELSE IF /\ section = "additionals"
                         /\ get_query_type(item.rr.resource_data) = TypeOPT
                 THEN IF st.edns # None
                      \* "Multiple OPT records"
                      THEN [st EXCEPT !.ok = FALSE]
                      ELSE CHOOSE r \in
                            {Read(section, count - 1, next) :
                                next \in {[st EXCEPT !.pos = item.pos,
                                                     !.edns = Some(Len(st.items)),
                                                     !.items = Append(@, item.rr)]}} : TRUE
                 ELSE CHOOSE r \in
                        {Read(section, count - 1, next) :
                            next \in {[st EXCEPT !.pos = item.pos,
                                                 !.items = Append(@, item.rr)]}} : TRUE :
                    item \in {IF section = "questions"
                              THEN Question_from_buf(buf, st.pos)
                              ELSE ResourceRecord_from_buf(buf, st.pos)}} : TRUE
        From(section, count, prev) ==
            Read(section, count, [prev EXCEPT !.items = <<>>])
    IN IF header = None THEN [ok |-> FALSE, hangs |-> FALSE]
       ELSE CHOOSE decoded \in
            {[ok |-> ad.ok, hangs |-> ad.hangs,
              packet |-> [header |-> header[1], edns |-> ad.edns, questions |-> q.items,
                          answers |-> an.items, authorities |-> au.items,
                          additionals |-> ad.items]] :
                <<q, an, au, ad>> \in
                    {<<q, an, au, From("additionals", header[1].additional_rr_count, au)>> :
                        <<q, an, au>> \in
                        {<<q, an, From("authorities", header[1].authority_rr_count, an)>> :
                            <<q, an>> \in
                            {<<q, From("answers", header[1].answer_rr_count, q)>> :
                                q \in {Read("questions", header[1].question_count,
                                            [ok |-> TRUE, hangs |-> FALSE, pos |-> 12,
                                             items |-> <<>>, edns |-> None])}}}}} : TRUE

----------------------------------------------------------------------------
(* cache/ *)

\* u32::saturating_sub
saturating_sub(a, b) == IF a >= b THEN a - b ELSE 0

\* u32 subtraction that does not stop at 0
unchecked_sub(a, b) == a - b

\* Instant::elapsed().as_secs() as u32, on a clock of whole seconds; the cast
\* truncates nothing before 2^32 seconds have passed.
elapsed_secs(added, t) == t - added

EmptyCache == [query_cache |-> <<>>, rr_cache |-> <<>>]


\* CachedQuery::new: the AD flag from the header, the DNSSEC flag from the DO
\* bit of the response's OPT record.
CachedQuery_new(response_packet, ttd, t) ==
    [answers |-> None, authorities |-> None, additionals |-> None,
     flags |-> [AD |-> response_packet.header.z[2],
                DNSSEC |-> IF packet_edns_data(response_packet) = None THEN FALSE
                           ELSE packet_edns_data(response_packet)[1].dnssec_ok_bit],
     added |-> t, ttd |-> ttd]

\* CachedRecord::new
CachedRecord_new(rr, authenticated_data, t) ==
    [qname |-> rr.name, resource_data |-> rr.resource_data, ttl |-> rr.ttl,
     class |-> rr.class, flags |-> [AD |-> authenticated_data], added |-> t]

\* CachedRecord::get_hash: SHA-1 over name, type, class and rdata.
CachedRecord_get_hash(rec) ==
    <<rec.qname, qtype_to_u16(get_query_type(rec.resource_data)), rec.class,
      rec.resource_data.data>>

as_rr_unchecked(rec, t) ==
    ResourceRecord(rec.qname, rec.resource_data,
                   unchecked_sub(rec.ttl, elapsed_secs(rec.added, t)), rec.class)

\* CachedRecord::as_rr
as_rr(rec, t) ==
    ResourceRecord(rec.qname, rec.resource_data,
                   saturating_sub(rec.ttl, elapsed_secs(rec.added, t)), rec.class)

SectionItems(name, section) ==
    [i \in 1..Len(section) |-> [section |-> name, rr |-> section[i]]]

\* The loop over the sections of Cache::cache_response: every record that is
\* not an OPT goes into rr_cache under its hash, replacing what was there, and
\* its hash is pushed onto the section list of the cached query.
RECURSIVE cache_records(_, _, _, _, _)
cache_records(rr_cache, cached_query, items, ad, t) ==
    IF items = <<>> THEN [rr_cache |-> rr_cache, cached_query |-> cached_query]
    ELSE LET it == Head(items)
             cached_rr == CachedRecord_new(it.rr, ad, t)
             hash == CachedRecord_get_hash(cached_rr)
         IN IF get_query_type(it.rr.resource_data) = TypeOPT
            THEN cache_records(rr_cache, cached_query, Tail(items), ad, t)
            ELSE cache_records(
                    MapInsert(rr_cache, hash, cached_rr),
                    [cached_query EXCEPT
                        ![it.section] = Some((IF @ = None THEN <<>> ELSE @[1]) \o <<hash>>)],
                    Tail(items), ad, t)

\* Cache::cache_response at time t: [ok, cache, stored].  The records are
\* inserted before the question is looked for, so an Err leaves them behind.
cache_response(c, response, t) ==
    LET cache_for == get_caching_duration_for_packet(response)
        walked == cache_records(c.rr_cache, CachedQuery_new(response, cache_for, t),
                                SectionItems("answers", response.answers)
                                    \o SectionItems("authorities", response.authorities)
                                    \o SectionItems("additionals", response.additionals),
                                response.header.z[2], t)
    IN IF cache_for < 15 THEN [ok |-> TRUE, cache |-> c, stored |-> FALSE]
       ELSE IF response.questions = <<>>
            THEN [ok |-> FALSE, cache |-> [c EXCEPT !.rr_cache = walked.rr_cache],
                  stored |-> FALSE]
            ELSE [ok |-> TRUE,
                  cache |-> [query_cache |-> MapInsert(c.query_cache,
                                                get_dns_query_hash(response.questions[1]),
                                                walked.cached_query),
                             rr_cache |-> walked.rr_cache],
                  stored |-> TRUE]

HashItems(name, section) ==
    IF section = None THEN <<>>
    ELSE [i \in 1..Len(section[1]) |-> [section |-> name, hash |-> section[1][i]]]

PushRecord(packet, section, rr) ==
    CASE section = "answers" ->
            [packet EXCEPT !.answers = Append(@, rr), !.header.answer_rr_count = @ + 1]
      [] section = "authorities" ->
            [packet EXCEPT !.authorities = Append(@, rr), !.header.authority_rr_count = @ + 1]
      [] section = "additionals" ->
            [packet EXCEPT !.additionals = Append(@, rr), !.header.additional_rr_count = @ + 1]

\* The loop over the sections of Cache::question_lookup; the records pushed
\* before a miss is found stay in the response packet.
RECURSIVE lookup_records(_, _, _, _, _, _)
lookup_records(rr_cache, response_packet, items, require_ad, include_dnssec_rrs, t) ==
    IF items = <<>> THEN [hit |-> TRUE, response_packet |-> response_packet, why |-> "hit"]
    ELSE IF Head(items).hash \notin DOMAIN rr_cache
    THEN [hit |-> FALSE, response_packet |-> response_packet, why |-> "rr_missing"]
    ELSE LET cached_rr == rr_cache[Head(items).hash]
         IN IF ~include_dnssec_rrs
                 /\ is_dnssec_qtype(qtype_to_u16(get_query_type(cached_rr.resource_data)))
            THEN lookup_records(rr_cache, response_packet, Tail(items), require_ad,
                                include_dnssec_rrs, t)
            ELSE IF require_ad /\ ~cached_rr.flags.AD
            THEN [hit |-> FALSE, response_packet |-> response_packet, why |-> "ad_overridden"]
            ELSE lookup_records(rr_cache,
                                PushRecord(response_packet, Head(items).section, as_rr(cached_rr, t)),
                                Tail(items), require_ad, include_dnssec_rrs, t)

IsStale_strict(cached_query, t) == elapsed_secs(cached_query.added, t) > cached_query.ttd

\* (cached_query.added.elapsed().as_secs() as u32) >= cached_query.ttd
IsStale(cached_query, t) == elapsed_secs(cached_query.added, t) >= cached_query.ttd

MissingDnssec_unchecked(dnssec, cached_query) == FALSE

\* dnssec && !cached_query.flags.contains(CacheFlags::DNSSEC)
MissingDnssec(dnssec, cached_query) == dnssec /\ ~cached_query.flags.DNSSEC

\* Cache::question_lookup at time t: [hit, response_packet, why]
question_lookup(c, question, response_packet, dnssec, t) ==
    LET hash == get_dns_query_hash(question)
    IN IF hash \notin DOMAIN c.query_cache
       THEN [hit |-> FALSE, response_packet |-> response_packet, why |-> "absent"]
       ELSE LET cached_query == c.query_cache[hash]
                require_ad == cached_query.flags.AD
            IN IF IsStale(cached_query, t)
               THEN [hit |-> FALSE, response_packet |-> response_packet, why |-> "stale"]
               ELSE IF MissingDnssec(dnssec, cached_query)
               THEN [hit |-> FALSE, response_packet |-> response_packet, why |-> "no_dnssec"]
               ELSE lookup_records(c.rr_cache,
                        [response_packet EXCEPT !.header.z[2] = require_ad],
                        HashItems("answers", cached_query.answers)
                            \o HashItems("authorities", cached_query.authorities)
                            \o HashItems("additionals", cached_query.additionals),
                        require_ad,
                        dnssec \/ is_dnssec_qtype(qtype_to_u16(question.query_type)),
                        t)

----------------------------------------------------------------------------
(* resolver/mod.rs: the stages of Resolver::resolve_query *)

\* denylist_lookup with ANY left to the arm of the other query types
denylist_lookup_any_unanswered(dl, question, response_packet) ==
    IF ~contains_entry(dl, question.qname)
    THEN [found |-> FALSE, response_packet |-> response_packet]
    ELSE LET authoritative == [response_packet EXCEPT !.header.is_authoritative = TRUE]
             rdata == CASE question.query_type = TypeA -> Some(RecordA("0.0.0.0"))
                        [] question.query_type = TypeAAAA -> Some(RecordAAAA("::"))
                        [] OTHER -> None
         IN [found |-> TRUE,
             response_packet |->
                IF rdata = None THEN authoritative
                ELSE PushRecord(authoritative, "answers",
                                ResourceRecord(question.qname, rdata[1], 180, IN_CLASS))]

\* Resolver::denylist_lookup: [found, response_packet]
denylist_lookup(dl, question, response_packet) ==
    IF ~contains_entry(dl, question.qname)
    THEN [found |-> FALSE, response_packet |-> response_packet]
    ELSE LET authoritative == [response_packet EXCEPT !.header.is_authoritative = TRUE]
             rdata == CASE question.query_type \in {TypeA, TypeANY} -> Some(RecordA("0.0.0.0"))
                        [] question.query_type = TypeAAAA -> Some(RecordAAAA("::"))
                        [] OTHER -> None
         IN [found |-> TRUE,
             response_packet |->
                IF rdata = None THEN authoritative
                ELSE PushRecord(authoritative, "answers",
                                ResourceRecord(question.qname, rdata[1], 180, IN_CLASS))]

RECURSIVE PushAll(_, _, _)
PushAll(packet, section, rrs) ==
    IF rrs = <<>> THEN packet
    ELSE PushAll(PushRecord(packet, section, Head(rrs)), section, Tail(rrs))

\* Resolver::allowlist_lookup: found is !response_packet.answers.is_empty()
allowlist_lookup(map, question, response_packet) ==
    LET allowlist_records == get_entry(map, question.qname)
        matching == SelectSeq(allowlist_records[1],
                        LAMBDA rdata : \/ question.query_type = TypeANY
                                       \/ get_query_type(rdata) = question.query_type)
        filled == IF allowlist_records = None THEN response_packet
                  ELSE PushAll([response_packet EXCEPT !.header.is_authoritative = TRUE],
                               "answers",
                               [i \in 1..Len(matching) |->
                                    ResourceRecord(question.qname, matching[i], 180, IN_CLASS)])
    IN [found |-> filled.answers # <<>>, response_packet |-> filled]

wants_recursion_always(query_packet) == TRUE

\* query_packet.header.recursion_desired
wants_recursion(query_packet) == query_packet.header.recursion_desired

\* resolve_with_upstream, were it to copy the reply's additional section whole.
resolve_with_upstream_all_additionals(upstream_response, response_packet) ==
    IF upstream_response = None
    THEN [ok |-> FALSE,
          response_packet |-> [response_packet EXCEPT !.header.response_code = "ServerFailure"]]
    ELSE LET up == upstream_response[1]
             copied == [response_packet EXCEPT
                            !.questions = up.questions,
                            !.header.question_count = up.header.question_count,
                            !.answers = up.answers,
                            !.header.answer_rr_count = up.header.answer_rr_count]
             with_additionals == PushAll(copied, "additionals", up.additionals)
         IN [ok |-> TRUE,
             response_packet |->
                [with_additionals EXCEPT
                    !.authorities = up.authorities,
                    !.header.authority_rr_count = up.header.authority_rr_count,
                    !.header.z[2] = IF up.header.z[2] THEN TRUE ELSE @]]

\* resolve_with_upstream, were it to start from the header of the reply.
resolve_with_upstream_reply_header(upstream_response, response_packet) ==
    IF upstream_response = None
    THEN [ok |-> FALSE,
          response_packet |-> [response_packet EXCEPT !.header.response_code = "ServerFailure"]]
    ELSE LET up == upstream_response[1]
             copied == [response_packet EXCEPT
                            !.header = [up.header EXCEPT
                                            !.additional_rr_count =
                                                response_packet.header.additional_rr_count],
                            !.questions = up.questions,
                            !.header.question_count = up.header.question_count,
                            !.answers = up.answers,
                            !.header.answer_rr_count = up.header.answer_rr_count]
             with_additionals == PushAll(copied, "additionals", NonOptRecords(up.additionals))
         IN [ok |-> TRUE,
             response_packet |->
                [with_additionals EXCEPT
                    !.authorities = up.authorities,
                    !.header.authority_rr_count = up.header.authority_rr_count,
                    !.header.z[2] = IF up.header.z[2] THEN TRUE ELSE @]]

\* Resolver::resolve_with_upstream, given what upstream::resolve_with_upstream
\* returned: None for an Err, Some(packet) for a reply.  [ok, response_packet]
resolve_with_upstream(upstream_response, response_packet) ==
    IF upstream_response = None
    THEN [ok |-> FALSE,
          response_packet |-> [response_packet EXCEPT !.header.response_code = "ServerFailure"]]
    ELSE LET up == upstream_response[1]
             copied == [response_packet EXCEPT
                            !.questions = up.questions,
                            !.header.question_count = up.header.question_count,
                            !.answers = up.answers,
                            !.header.answer_rr_count = up.header.answer_rr_count]
             with_additionals == PushAll(copied, "additionals", NonOptRecords(up.additionals))
         IN [ok |-> TRUE,
             response_packet |->
                [with_additionals EXCEPT
                    !.authorities = up.authorities,
                    !.header.authority_rr_count = up.header.authority_rr_count,
                    !.header.z[2] = IF up.header.z[2] THEN TRUE ELSE @]]

\* The values the 'resolve block of resolve_query breaks with.
BreakFormatError == [cache_response |-> FALSE, source |-> None]
BreakDenylist == [cache_response |-> FALSE, source |-> Some("Denylist")]
BreakAllowlist == [cache_response |-> FALSE, source |-> Some("Allowlist")]
BreakNoRecurse == [cache_response |-> FALSE, source |-> Some("NoRecurse")]
BreakCache_cached == [cache_response |-> TRUE, source |-> Some("Cache")]
BreakCache == [cache_response |-> FALSE, source |-> Some("Cache")]
BreakUpstream == [cache_response |-> TRUE, source |-> Some("Upstream")]

\* The max_size resolve_query encodes with.
response_max_size(is_tcp, requestor_edns_buf_size) ==
    IF is_tcp THEN None
    ELSE Some(IF requestor_edns_buf_size = None THEN MAX_STANDARD_DNS_MSG_SIZE
              ELSE requestor_edns_buf_size[1])

\* QueryLog::new_from_response: Err when the response has no question.
new_from_response(response, source) ==
    IF response.questions = <<>> THEN None
    ELSE Some([domain |-> response.questions[1].qname,
               qtype |-> qtype_to_u16(response.questions[1].query_type),
               response_code |-> response.header.response_code,
               source |-> source])

\* ListEntryKind
DenyDomain(domain) == [kind |-> "DenyDomain", domain |-> domain]
DenyRegex(id, regex) == [kind |-> "DenyRegex", id |-> id, regex |-> regex]
HostsEntry(domain, ip_addr) == [kind |-> "Hosts", domain |-> domain, ip_addr |-> ip_addr]
IpV4(address) == [v |-> 4, address |-> address]
IpV6(address) == [v |-> 6, address |-> address]

add_list_entry_dropped(dl, map, entry) == [ok |-> TRUE, denylist |-> dl, hosts |-> map]

\* Resolver::add_list_entry: [ok, denylist, hosts]
add_list_entry(dl, map, entry) ==
    CASE entry.kind = "DenyDomain" ->
            [ok |-> TRUE, denylist |-> Denylist_add_entry(dl, entry.domain), hosts |-> map]
      [] entry.kind = "DenyRegex" ->
            IF entry.regex = None THEN [ok |-> FALSE, denylist |-> dl, hosts |-> map]
            ELSE [ok |-> TRUE, denylist |-> add_regex(dl, entry.id, entry.regex[1]),
                  hosts |-> map]
      [] entry.kind = "Hosts" ->
            LET rdata == IF entry.ip_addr.v = 4 THEN RecordA(entry.ip_addr.address)
                         ELSE RecordAAAA(entry.ip_addr.address)
            IN [ok |-> Hosts_add_entry(map, entry.domain, rdata).ok, denylist |-> dl,
                hosts |-> Hosts_add_entry(map, entry.domain, rdata).map]

----------------------------------------------------------------------------
(* The server: the inputs of the model *)

NameAB == <<"a", ".", "b">>
NameCAB == <<"c", ".", "a", ".", "b">>

QNames == {NameAB, NameCAB}

\* A decoded inbound query: the header counts equal what was decoded.
QueryPacket(rd, questions, edns_rr) ==
    [NewDnsPacket EXCEPT
        !.header.id = 7,
        !.header.recursion_desired = rd,
        !.header.question_count = Len(questions),
        !.questions = questions,
        !.additionals = edns_rr,
        !.header.additional_rr_count = Len(edns_rr),
        !.edns = IF edns_rr = None THEN None ELSE Some(0)]

\* The OPT record of a requestor: payload size and DO bit.
RequestorOpt(size, do) == Some(get_edns_rr(size, IF do THEN Some(EDNS_DO_BIT) ELSE None))

\* An inbound message as handle_incoming_requests hands it to resolve_query:
\* the transport, what DnsPacket::from_buf made of the bytes (None: Err), and
\* whether the message carried the 12 bytes of a header.
UdpQuery(rd, questions, edns_rr) ==
    [is_tcp |-> FALSE, parsed_packet |-> Some(QueryPacket(rd, questions, edns_rr)),
     header_parsed |-> TRUE]

\* A message DnsPacket::from_buf returns Err for.
Undecodable(header_parsed) ==
    [is_tcp |-> FALSE, parsed_packet |-> None, header_parsed |-> header_parsed]

\* Well-formed queries over UDP for one name: with RD=1 and with RD=0.
GoodQueries ==
    {UdpQuery(rd, <<Question(NameAB, TypeA)>>, None) : rd \in BOOLEAN}

\* Messages that do not decode, that carry no question, and that announce a
\* payload size of 0.
OddQueries ==
    {Undecodable(TRUE),
     UdpQuery(TRUE, <<>>, None),
     UdpQuery(TRUE, <<Question(NameAB, TypeA)>>, RequestorOpt(0, FALSE))}

Inbound == GoodQueries \cup OddQueries

\* The one record the upstream resolver answers with, whatever the question.
UpstreamRecord(ttl) == ResourceRecord(NameAB, RecordA("192.0.2.1"), ttl, IN_CLASS)

\* A reply of the upstream resolver as decoded: it echoes the question and
\* carries its own OPT record.
UpstreamReply(question, rcode, ad, answers) ==
    [NewDnsPacket EXCEPT
        !.header.is_response = TRUE,
        !.header.response_code = rcode,
        !.header.z[2] = ad,
        !.header.question_count = 1,
        !.questions = <<question>>,
        !.header.answer_rr_count = Len(answers),
        !.answers = answers,
        !.header.additional_rr_count = 1,
        !.additionals = <<get_edns_rr(DEFAULT_EDNS_BUF_CAPACITY, None)>>,
        !.edns = Some(0)]

\* What upstream::resolve_with_upstream can return: an Err (None) or a reply,
\* given by its rcode, its AD bit and the TTL of its answer (None: no answer).
Reply(rcode, ad, ttl) == Some([rcode |-> rcode, ad |-> ad, ttl |-> ttl])

\* A name of three labels of 63 bytes or more, one name for each i.
BigName(i) ==
    LET c == <<"a", "b", "c", "n", "s", "A">>[((i - 1) % 6) + 1]
        labels == 3 + ((i - 1) \div 6)
    IN [k \in 1..(labels * (MAX_LABEL_LEN + 1) - 1) |->
            IF k % (MAX_LABEL_LEN + 1) = 0 THEN "." ELSE c]

\* A reply with count answers, each an address of a name of its own: the
\* answers of a reply read over TCP need not fit a datagram.
BigReply(count) == Some([rcode |-> "Success", ad |-> FALSE, ttl |-> Some(60), count |-> count])

\* A reply whose additional section has an address record in front of the
\* upstream resolver's own OPT record.
GlueReply == Some([rcode |-> "Success", ad |-> FALSE, ttl |-> Some(60), glue |-> TRUE])

\* GlueReply with the AD bit, and a reply without it whose answer is an
\* address of the name asked for: for c.a.b, the additional record of GlueReply.
AdGlueReply == Some([rcode |-> "Success", ad |-> TRUE, ttl |-> Some(60), glue |-> TRUE])
OwnReply == Some([rcode |-> "Success", ad |-> FALSE, ttl |-> Some(60), own |-> TRUE])

\* A reply whose question section is not the question that was forwarded:
\* nothing in upstream::resolve_with_upstream compares the two.
AsksReply(questions) ==
    Some([rcode |-> "Success", ad |-> FALSE, ttl |-> Some(60), questions |-> questions])

UpstreamOutcome(question, outcome) ==
    IF outcome = None THEN None
    ELSE LET reply ==
                UpstreamReply(question, outcome[1].rcode, outcome[1].ad,
                              IF "count" \in DOMAIN outcome[1]
                              THEN [i \in 1..outcome[1].count |->
                                      ResourceRecord(BigName(i), RecordA("192.0.2.1"),
                                                     outcome[1].ttl[1], IN_CLASS)]
                              ELSE IF outcome[1].ttl = None THEN <<>>
                              ELSE IF "own" \in DOMAIN outcome[1]
                              THEN <<ResourceRecord(question.qname, RecordA("10.0.0.2"),
                                                    outcome[1].ttl[1], IN_CLASS)>>
                              ELSE <<UpstreamRecord(outcome[1].ttl[1])>>)
             glued ==
                IF "glue" \in DOMAIN outcome[1]
                THEN [reply EXCEPT
                        !.additionals =
                            <<ResourceRecord(NameCAB, RecordA("10.0.0.2"),
                                             outcome[1].ttl[1], IN_CLASS)>> \o @,
                        !.header.additional_rr_count = 2,
                        !.edns = Some(1)]
                ELSE reply
         IN Some(IF "questions" \in DOMAIN outcome[1]
                 THEN [glued EXCEPT !.questions = outcome[1].questions,
                                    !.header.question_count = Len(outcome[1].questions)]
                 ELSE glued)

Commands ==
    {DenyDomain(hash_to_u128(NameAB, NoPrefix)),
     HostsEntry(hash_to_u128(NameAB, NoPrefix), IpV4("10.0.0.1"))}

----------------------------------------------------------------------------
(* The server: state and steps *)

Workers == 1..NWorkers
HandlerIds == 1..MaxInFlight

NoHandler == [pc |-> "none"]

NoProbe == [kind |-> "none"]

Live == {h \in HandlerIds : handlers[h] # NoHandler}

InitServer ==
    /\ cache = EmptyCache
    /\ now = 0
    /\ server = "running"
    /\ workers = [w \in Workers |-> "running"]
    /\ handlers = [h \in HandlerIds |-> NoHandler]
    /\ command_rx = <<>>
    /\ history = [accepted |-> 0, commands |-> 0, processed |-> {},
                  upstream_ok |-> FALSE, origin |-> <<>>, rr_origin |-> <<>>]

Init ==
    /\ denylist = EmptyDenylist
    /\ hosts = EmptyHosts
    /\ probe = NoProbe
    /\ InitServer

\* handle_incoming_requests: a datagram or a TCP message arrives at worker w,
\* which spawns resolve_query on it.
Accept(w, msg) ==
    /\ workers[w] = "running"
    /\ history.accepted < MaxQueries
    /\ \E h \in HandlerIds :
        /\ handlers[h] = NoHandler
        /\ \A g \in HandlerIds : g < h => handlers[g] # NoHandler
        /\ handlers' = [handlers EXCEPT ![h] =
            [pc |-> "start", worker |-> w, is_tcp |-> msg.is_tcp,
             parsed_packet |-> msg.parsed_packet,
             header_parsed |-> msg.header_parsed,
             response_packet |-> NewDnsPacket, dnssec |-> FALSE,
             cache_response |-> FALSE, source |-> None,
             result |-> "pending", sent |-> FALSE, log |-> None,
             dst |-> None, delivered |-> FALSE, logged |-> FALSE,
             stages |-> <<>>, cache_why |-> "none", hit_at |-> 0,
             upstream_failed |-> FALSE, upstream_response |-> None, hit_origin |-> None,
             processed_at_accept |-> history.processed]]
    /\ history' = [history EXCEPT !.accepted = @ + 1]
    /\ UNCHANGED <<denylist, hosts, cache, now, server, workers, command_rx, probe>>

Break(hd, how, response_packet) ==
    [hd EXCEPT !.pc = "encode", !.cache_response = how.cache_response,
               !.source = how.source, !.response_packet = response_packet]

\* resolve_query from its start to the end of the denylist lookup.
StepDenylist(h) ==
    /\ handlers[h].pc = "start"
    /\ LET hd == handlers[h]
           response_packet == get_response_dns_packet(hd.parsed_packet)
           query_packet == hd.parsed_packet[1]
           question == query_packet.questions[1]
           looked == denylist_lookup(denylist, question, response_packet)
       IN handlers' = [handlers EXCEPT ![h] =
            IF hd.parsed_packet = None
            THEN Break(hd, BreakFormatError,
                       [response_packet EXCEPT !.header.response_code = "FormatError"])
            ELSE IF query_packet.header.question_count > 1 \/ Len(query_packet.questions) > 1
            THEN Break(hd, BreakFormatError,
                       [response_packet EXCEPT !.header.response_code = "FormatError"])
            ELSE IF query_packet.questions = <<>>
            THEN [hd EXCEPT !.pc = "done", !.result = "panic",
                            !.response_packet = response_packet]
            ELSE LET at == [hd EXCEPT
                                !.stages = Append(@, "denylist"),
                                !.dnssec = IF packet_edns_data(query_packet) = None THEN FALSE
                                           ELSE packet_edns_data(query_packet)[1].dnssec_ok_bit]
                 IN IF looked.found THEN Break(at, BreakDenylist, looked.response_packet)
                    ELSE [at EXCEPT !.pc = "hosts",
                                    !.response_packet = looked.response_packet]]
    /\ UNCHANGED <<denylist, hosts, cache, now, server, workers, command_rx, history, probe>>

\* The hosts lookup and the recursion-desired check that follows it.
StepHosts(h) ==
    /\ handlers[h].pc = "hosts"
    /\ LET hd == [handlers[h] EXCEPT !.stages = Append(@, "hosts")]
           query_packet == hd.parsed_packet[1]
           looked == allowlist_lookup(hosts, query_packet.questions[1], hd.response_packet)
       IN handlers' = [handlers EXCEPT ![h] =
            IF looked.found THEN Break(hd, BreakAllowlist, looked.response_packet)
            ELSE IF ~wants_recursion(query_packet)
            THEN Break([hd EXCEPT !.stages = Append(@, "rd")], BreakNoRecurse,
                       looked.response_packet)
            ELSE [hd EXCEPT !.stages = Append(@, "rd"), !.pc = "cache",
                            !.response_packet = looked.response_packet]]
    /\ UNCHANGED <<denylist, hosts, cache, now, server, workers, command_rx, history, probe>>

\* Resolver::cache_lookup
StepCache(h) ==
    /\ handlers[h].pc = "cache"
    /\ LET hd == [handlers[h] EXCEPT !.stages = Append(@, "cache")]
           looked == question_lookup(cache, hd.parsed_packet[1].questions[1],
                                     hd.response_packet, hd.dnssec, now)
           key == get_dns_query_hash(hd.parsed_packet[1].questions[1])
           seen == [hd EXCEPT !.cache_why = looked.why, !.hit_at = now,
                              !.hit_origin = IF key \in DOMAIN history.origin
                                             THEN Some([query |-> history.origin[key],
                                                        records |-> history.rr_origin])
                                             ELSE None]
       IN handlers' = [handlers EXCEPT ![h] =
            IF looked.hit THEN Break(seen, BreakCache, looked.response_packet)
            ELSE [seen EXCEPT !.pc = "upstream",
                              !.response_packet = looked.response_packet]]
    /\ UNCHANGED <<denylist, hosts, cache, now, server, workers, command_rx, history, probe>>

\* The upstream call returns; whatever it returned the response is to be cached.
StepUpstream(h, outcome) ==
    /\ handlers[h].pc = "upstream"
    /\ LET hd == [handlers[h] EXCEPT !.stages = Append(@, "upstream")]
           upstream_response == UpstreamOutcome(hd.parsed_packet[1].questions[1], outcome)
           resolved == resolve_with_upstream(upstream_response, hd.response_packet)
       IN handlers' = [handlers EXCEPT ![h] =
            Break([hd EXCEPT !.upstream_failed = ~resolved.ok,
                             !.upstream_response = upstream_response], BreakUpstream,
                  resolved.response_packet)]
    /\ history' = [history EXCEPT !.upstream_ok = @ \/ outcome # None]
    /\ UNCHANGED <<denylist, hosts, cache, now, server, workers, command_rx, probe>>

\* The origin of what a cached response puts into rr_cache: for every record
\* hash, the TTL the record carried and the time of caching.
RECURSIVE note_records(_, _, _)
note_records(rr_origin, rrs, t) ==
    IF rrs = <<>> THEN rr_origin
    ELSE note_records(
            MapInsert(rr_origin, CachedRecord_get_hash(CachedRecord_new(Head(rrs), FALSE, t)),
                      [ttl |-> Head(rrs).ttl, at |-> t]),
            Tail(rrs), t)

\* resolve_query, were it to return the Err of send_encoded_packet.
send_and_log_or_fail(filled, out, log_entry, send_ok, log_open) ==
    IF send_ok
    THEN [filled EXCEPT !.result = "ok", !.sent = TRUE,
                        !.dst = Some([len |-> out.written,
                                      tc |-> (out.header.flags \div 512) % 2 = 1]),
                        !.delivered = TRUE,
                        !.log = log_entry,
                        !.logged = log_entry # None /\ log_open]
    ELSE [filled EXCEPT !.result = "err", !.sent = TRUE,
                        !.dst = Some([len |-> out.written,
                                      tc |-> (out.header.flags \div 512) % 2 = 1])]

\* resolve_query from send_encoded_packet to its end, for the handler
\* `filled` whose response was encoded to `out`: the bytes are handed to the
\* connection, an Err of the send is reported and dropped, the log entry is
\* made and, if there is one, put onto the log channel, whose Err is dropped
\* too; the result is Ok(()).
send_and_log(filled, out, log_entry, send_ok, log_open) ==
    [filled EXCEPT !.result = "ok", !.sent = TRUE,
                   !.dst = Some([len |-> out.written,
                                 tc |-> (out.header.flags \div 512) % 2 = 1]),
                   !.delivered = send_ok,
                   !.log = log_entry,
                   !.logged = log_entry # None /\ log_open]

\* resolve_query after the 'resolve block: the questions are filled in, the
\* response is encoded, cached if the block said so, sent and logged.
\* send_ok is the outcome of connection.send_encoded_packet and log_open
\* that of log_tx.send: an Err of either changes nothing else.  dst is what
\* was handed to the connection, by its length and its TC bit; delivered says
\* that the send succeeded, log is the entry made and logged says that it
\* went onto the log channel.
StepFinish(h, send_ok, log_open) ==
    /\ handlers[h].pc = "encode"
    /\ LET hd == handlers[h]
           requestor_edns_buf_size ==
                IF hd.parsed_packet = None THEN None
                ELSE IF packet_edns_data(hd.parsed_packet[1]) = None THEN None
                ELSE Some(packet_edns_data(hd.parsed_packet[1])[1].udp_payload_size)
           response_packet ==
                IF hd.response_packet.questions = <<>> /\ hd.parsed_packet # None
                THEN [hd.response_packet EXCEPT
                        !.questions = hd.parsed_packet[1].questions,
                        !.header.question_count = hd.parsed_packet[1].header.question_count]
                ELSE hd.response_packet
           filled == [hd EXCEPT !.response_packet = response_packet, !.pc = "done"]
           cached == cache_response(cache, response_packet, now)
           log_entry == new_from_response(response_packet, hd.source)
           finished(out) == send_and_log(filled, out, log_entry, send_ok, log_open)
       IN \E out \in {encode_to_buf(response_packet,
                                    response_max_size(hd.is_tcp, requestor_edns_buf_size))} :
          IF ~out.ok
          THEN /\ handlers' = [handlers EXCEPT ![h] = [filled EXCEPT !.result = "err"]]
               /\ UNCHANGED <<cache, history>>
          ELSE IF hd.cache_response
          THEN /\ cache' = cached.cache
               /\ history' =
                    [history EXCEPT
                        !.origin = IF cached.stored
                                   THEN MapInsert(@, get_dns_query_hash(response_packet.questions[1]),
                                                  [source |-> hd.source, dnssec |-> hd.dnssec,
                                                   response |-> response_packet, at |-> now])
                                   ELSE @,
                        !.rr_origin = IF cached.cache.rr_cache # cache.rr_cache \/ cached.stored
                                      THEN note_records(@,
                                              NonOptRecords(response_packet.answers
                                                  \o response_packet.authorities
                                                  \o response_packet.additionals), now)
                                      ELSE @]
               /\ handlers' = [handlers EXCEPT ![h] =
                    IF cached.ok THEN finished(out) ELSE [filled EXCEPT !.result = "err"]]
          ELSE /\ handlers' = [handlers EXCEPT ![h] = finished(out)]
               /\ UNCHANGED <<cache, history>>
    /\ UNCHANGED <<denylist, hosts, now, server, workers, command_rx, probe>>

\* handle_incoming_requests: handlers.join_next() yields the result of a
\* handler.  An Err or a panic leaves the loop through `?`: the worker returns
\* and its JoinSet is dropped, which aborts the handlers still in it.
JoinHandler(h) ==
    /\ handlers[h].pc = "done"
    /\ workers[handlers[h].worker] = "running"
    /\ IF handlers[h].result = "ok"
       THEN /\ handlers' = [handlers EXCEPT ![h] = NoHandler]
            /\ UNCHANGED workers
       ELSE /\ workers' = [workers EXCEPT ![handlers[h].worker] = "returned"]
            /\ handlers' = [g \in HandlerIds |->
                              IF handlers[g] # NoHandler /\ handlers[g].worker = handlers[h].worker
                              THEN NoHandler ELSE handlers[g]]
    /\ UNCHANGED <<denylist, hosts, cache, now, server, command_rx, history, probe>>

\* block_until_completion: workers.join_next() yields a worker that returned;
\* its error is logged, and the loop ends when no worker is left.
JoinWorker(w) ==
    /\ server = "running"
    /\ workers[w] = "returned"
    /\ workers' = [workers EXCEPT ![w] = "joined"]
    /\ server' = IF \A v \in Workers \ {w} : workers[v] = "joined"
                 THEN "completed" ELSE "running"
    /\ UNCHANGED <<denylist, hosts, cache, now, handlers, command_rx, history, probe>>

\* A command is sent on the channel to the server.
SendCommand(cmd) ==
    /\ server = "running"
    /\ history.commands < MaxCommands
    /\ command_rx' = Append(command_rx, cmd)
    /\ history' = [history EXCEPT !.commands = @ + 1]
    /\ UNCHANGED <<denylist, hosts, cache, now, server, workers, handlers, probe>>

\* block_until_completion: command_rx.recv() yields a command, which
\* process_command applies; an Err is logged.
ProcessCommand ==
    /\ server = "running"
    /\ command_rx # <<>>
    /\ LET added == add_list_entry(denylist, hosts, Head(command_rx))
       IN /\ denylist' = added.denylist
          /\ hosts' = added.hosts
          /\ history' = [history EXCEPT
                            !.processed = IF added.ok THEN @ \cup {Head(command_rx)} ELSE @]
    /\ command_rx' = Tail(command_rx)
    /\ UNCHANGED <<cache, now, server, workers, handlers, probe>>

\* A second passes on the clock.
Tick ==
    /\ now + TickStep <= MaxTime
    /\ now' = now + TickStep
    /\ UNCHANGED <<denylist, hosts, cache, server, workers, handlers, command_rx, history, probe>>

Outcomes == {None, Reply("Success", FALSE, Some(20))}

Next ==
    \/ \E w \in Workers, msg \in Inbound : Accept(w, msg)
    \/ \E h \in HandlerIds : StepDenylist(h)
    \/ \E h \in HandlerIds : StepHosts(h)
    \/ \E h \in HandlerIds : StepCache(h)
    \/ \E h \in HandlerIds, outcome \in Outcomes : StepUpstream(h, outcome)
    \/ \E h \in HandlerIds : StepFinish(h, TRUE, TRUE)
    \/ \E h \in HandlerIds : JoinHandler(h)
    \/ \E w \in Workers : JoinWorker(w)
    \/ \E cmd \in Commands : SendCommand(cmd)
    \/ ProcessCommand

Spec == Init /\ [][Next]_vars

\* The cache on its own: well-formed queries with RD=1 arrive at one worker,
\* one name is asked with and without the DO bit, the lists stay empty, the
\* clock advances and the upstream resolver answers with two TTLs.
CacheInbound ==
    {UdpQuery(TRUE, <<Question(NameAB, TypeA)>>, None),
     UdpQuery(TRUE, <<Question(NameAB, TypeA)>>, RequestorOpt(DEFAULT_EDNS_BUF_CAPACITY, TRUE)),
     UdpQuery(TRUE, <<Question(NameCAB, TypeA)>>, None)}

CacheOutcomes ==
    {None, Reply("Success", FALSE, Some(15)), Reply("Success", FALSE, Some(40))}

NextCache ==
    \/ \E msg \in CacheInbound : Accept(1, msg)
    \/ \E h \in HandlerIds : StepDenylist(h)
    \/ \E h \in HandlerIds : StepHosts(h)
    \/ \E h \in HandlerIds : StepCache(h)
    \/ \E h \in HandlerIds, outcome \in CacheOutcomes : StepUpstream(h, outcome)
    \/ \E h \in HandlerIds : StepFinish(h, TRUE, TRUE)
    \/ \E h \in HandlerIds : JoinHandler(h)
    \/ Tick

SpecCache == Init /\ [][NextCache]_vars

\* Resolution on its own: the lists are what State::new loaded from the
\* denylist file and the hosts file, and stay as loaded; queries of several
\* types for two names arrive at one worker, one at a time, besides messages
\* that do not decode and queries with no question or with two.
ResolveInbound ==
    {UdpQuery(TRUE, <<Question(n, t)>>, None) :
        n \in QNames, t \in {TypeA, TypeAAAA, TypeANY, TypeNS}}
        \cup {UdpQuery(FALSE, <<Question(NameAB, TypeAAAA)>>, None),
              UdpQuery(TRUE, <<>>, None),
              UdpQuery(TRUE, <<Question(NameAB, TypeA), Question(NameCAB, TypeA)>>, None),
              Undecodable(TRUE), Undecodable(FALSE)}

\* State::new: the denylist file held nothing, a.b or *.a.b; the hosts file
\* held nothing, two addresses of a.b (the AAAA line first) or one of *.a.b.
InitResolve ==
    /\ denylist \in
        {EmptyDenylist,
         Denylist_add_entry(EmptyDenylist, hash_to_u128(NameAB, NoPrefix)),
         Denylist_add_entry(EmptyDenylist, hash_to_u128(NameAB, WildcardPrefix))}
    /\ hosts \in
        {EmptyHosts,
         Hosts_add_entry(Hosts_add_entry(EmptyHosts, hash_to_u128(NameAB, NoPrefix),
                                         RecordAAAA("::1")).map,
                         hash_to_u128(NameAB, NoPrefix), RecordA("10.0.0.1")).map,
         Hosts_add_entry(EmptyHosts, hash_to_u128(NameAB, WildcardPrefix),
                         RecordA("10.0.0.2")).map}
    /\ probe = NoProbe
    /\ InitServer

NextResolve ==
    \/ \E msg \in ResolveInbound : Live = {} /\ Accept(1, msg)
    \/ \E h \in HandlerIds : StepDenylist(h)
    \/ \E h \in HandlerIds : StepHosts(h)
    \/ \E h \in HandlerIds : StepCache(h)
    \/ \E h \in HandlerIds, outcome \in Outcomes : StepUpstream(h, outcome)
    \/ \E h \in HandlerIds, send_ok \in BOOLEAN, log_open \in BOOLEAN :
            StepFinish(h, send_ok, log_open)
    \/ \E h \in HandlerIds : JoinHandler(h)

SpecResolve == InitResolve /\ [][NextResolve]_vars

----------------------------------------------------------------------------
(* Responding: queries arrive as bytes over UDP and over TCP, with and     *)
(* without an OPT record, and the upstream resolver answers with replies   *)
(* of several sizes.                                                       *)

\* The payload sizes requestors announce.
RespondSizes == {0, 22, 23, MAX_STANDARD_DNS_MSG_SIZE, DEFAULT_EDNS_BUF_CAPACITY, 4096}

\* The queries sent: for a.b, with RD=1, without an OPT record and with one
\* of each size; one with the id 9, RD=0 and CD=1, one with the DO bit, and
\* one that carries two OPT records; a query with no question and one with
\* two.
RespondQueries ==
    LET query(edns_rr) == QueryPacket(TRUE, <<Question(NameAB, TypeA)>>, edns_rr)
    IN {query(None)}
        \cup {query(RequestorOpt(size, FALSE)) : size \in RespondSizes}
        \cup {[query(None) EXCEPT !.header.id = 9, !.header.recursion_desired = FALSE,
                                  !.header.z[3] = TRUE],
              [query(RequestorOpt(4096, TRUE)) EXCEPT !.header.id = 9, !.header.z[3] = TRUE],
              [query(RequestorOpt(4096, FALSE)) EXCEPT
                    !.additionals = @ \o @, !.header.additional_rr_count = 2]}
        \cup {QueryPacket(TRUE, <<>>, None),
              QueryPacket(TRUE, <<Question(NameAB, TypeA), Question(NameCAB, TypeA)>>, None)}

\* handle_incoming_requests: DnsPacket::from_buf on the bytes received, which
\* are those of a query as its sender encoded it.
WireQuery(query, is_tcp) ==
    CHOOSE msg \in
        {[is_tcp |-> is_tcp,
          parsed_packet |-> IF decoded.ok THEN Some(decoded.packet) ELSE None,
          header_parsed |-> TRUE] :
            decoded \in {DnsPacket_from_buf(encode_to_buf(query, None).buf)}} : TRUE

RespondInbound == {WireQuery(query, is_tcp) : query \in RespondQueries, is_tcp \in BOOLEAN}

RespondOutcomes ==
    {None, Reply("Success", FALSE, Some(20)), Reply("NameError", TRUE, None),
     GlueReply, BigReply(3), BigReply(MaxAnswers)}

NextRespond ==
    \/ \E msg \in RespondInbound : Live = {} /\ Accept(1, msg)
    \/ \E h \in HandlerIds : StepDenylist(h)
    \/ \E h \in HandlerIds : StepHosts(h)
    \/ \E h \in HandlerIds : StepCache(h)
    \/ \E h \in HandlerIds, outcome \in RespondOutcomes : StepUpstream(h, outcome)
    \/ \E h \in HandlerIds, send_ok \in BOOLEAN, log_open \in BOOLEAN :
            StepFinish(h, send_ok, log_open)
    \/ \E h \in HandlerIds : JoinHandler(h)

SpecRespond == InitResolve /\ [][NextRespond]_vars

----------------------------------------------------------------------------
(* Answering: the header bits, the response code and the sections of the   *)
(* responses, with upstream replies that differ in AD bit, response code,  *)
(* additional records and question, and a cache filled by earlier queries. *)

\* Queries for a.b and c.a.b, one for a type the hosts file has no record
\* of, one with RD=0.
AnswerInbound ==
    {UdpQuery(TRUE, <<Question(NameAB, TypeA)>>, None),
     UdpQuery(TRUE, <<Question(NameCAB, TypeA)>>, None),
     UdpQuery(TRUE, <<Question(NameAB, TypeNS)>>, None),
     UdpQuery(FALSE, <<Question(NameAB, TypeNS)>>, None)}

AnswerOutcomes ==
    {None, Reply("Success", TRUE, Some(20)), Reply("Success", FALSE, Some(20)),
     Reply("NameError", FALSE, None), GlueReply, AdGlueReply, OwnReply,
     AsksReply(<<Question(NameCAB, TypeA)>>), AsksReply(<<>>)}

NextAnswer ==
    \/ \E msg \in AnswerInbound : Live = {} /\ Accept(1, msg)
    \/ \E h \in HandlerIds : StepDenylist(h)
    \/ \E h \in HandlerIds : StepHosts(h)
    \/ \E h \in HandlerIds : StepCache(h)
    \/ \E h \in HandlerIds, outcome \in AnswerOutcomes : StepUpstream(h, outcome)
    \/ \E h \in HandlerIds : StepFinish(h, TRUE, TRUE)
    \/ \E h \in HandlerIds : JoinHandler(h)

SpecAnswer == InitResolve /\ [][NextAnswer]_vars

----------------------------------------------------------------------------
(* resolver/upstream.rs: one call of resolve_with_upstream, step by step *)

\* A name of LongLabels labels of LongLabelLen bytes each: a query for it does
\* not fit the 512 bytes of a standard message.
LongName ==
    [i \in 1..(LongLabels * (LongLabelLen + 1) - 1) |->
        IF i % (LongLabelLen + 1) = 0 THEN "." ELSE "a"]

\* util::get_query_dns_packet(Some(id), enable_dnssec)
get_query_dns_packet(id, enable_dnssec) ==
    [NewDnsPacket EXCEPT
        !.header.id = id,
        !.header.recursion_desired = TRUE,
        !.header.z[2] = TRUE,
        !.additionals = <<get_edns_rr(DEFAULT_EDNS_BUF_CAPACITY,
                                      IF enable_dnssec THEN Some(EDNS_DO_BIT) ELSE None)>>,
        !.header.additional_rr_count = 1,
        !.edns = Some(0)]

\* resolve_with_upstream is called: the query packet is built.  probe holds
\* the locals of the call, besides, for every pass of the loop, the transport
\* it chose (transports) and what it read (replies).
UpstreamCall(question, enable_dnssec) ==
    /\ probe = NoProbe
    /\ probe' = [kind |-> "upstream", pc |-> "loop", question |-> question,
                 packet |-> [get_query_dns_packet(7, enable_dnssec) EXCEPT
                                !.questions = <<question>>,
                                !.header.question_count = @ + 1],
                 force_tcp |-> FALSE, transports |-> <<>>, replies |-> <<>>,
                 result |-> None, response_code |-> "none"]
    /\ UNCHANGED <<denylist, hosts, server_vars>>

\* The top of the loop: the query is encoded and the connection made, over TCP
\* if force_tcp or if the query is longer than 512 bytes; ok says whether
\* connecting succeeded.  An Err of either ends the call.
UpstreamConnect(ok) ==
    /\ probe.kind = "upstream" /\ probe.pc = "loop"
    /\ LET buf == encode_to_buf(probe.packet, None)
       IN probe' =
            IF ~buf.ok THEN [probe EXCEPT !.pc = "done"]
            ELSE LET is_tcp == probe.force_tcp \/ buf.written > MAX_STANDARD_DNS_MSG_SIZE
                     connected == [probe EXCEPT
                                    !.transports = Append(@, IF is_tcp THEN "tcp" ELSE "udp")]
                 IN IF ok THEN [connected EXCEPT !.pc = "send"]
                    ELSE [connected EXCEPT !.pc = "done"]
    /\ UNCHANGED <<denylist, hosts, server_vars>>

\* connection.send_encoded_packet(&buf)
UpstreamSend(ok) ==
    /\ probe.kind = "upstream" /\ probe.pc = "send"
    /\ probe' = [probe EXCEPT !.pc = IF ok THEN "read" ELSE "done"]
    /\ UNCHANGED <<denylist, hosts, server_vars>>

\* connection.read as UpstreamRead, without the `connection.is_tcp()` test: a
\* truncated response sends the call around the loop again over any transport.
UpstreamRead_retry_over_tcp(truncation) ==
    /\ probe.kind = "upstream" /\ probe.pc = "read"
    /\ probe' =
            IF truncation = None
            THEN [probe EXCEPT !.pc = "done", !.replies = Append(@, "err")]
            ELSE IF truncation[1]
            THEN [probe EXCEPT !.pc = "loop", !.force_tcp = TRUE,
                               !.replies = Append(@, "tc")]
            ELSE [probe EXCEPT !.pc = "done",
                               !.result = Some(UpstreamReply(probe.question, "Success", FALSE,
                                                             <<UpstreamRecord(20)>>)),
                               !.replies = Append(@, "ok")]
    /\ UNCHANGED <<denylist, hosts, server_vars>>

\* connection.read(&mut buf) returns and the rest of the loop body runs.
\* truncation is None for an Err of the read or of DnsPacket::from_buf,
\* otherwise the TC bit of the response that was read.
UpstreamRead(truncation) ==
    /\ probe.kind = "upstream" /\ probe.pc = "read"
    /\ LET response == [UpstreamReply(probe.question, "Success", FALSE, <<UpstreamRecord(20)>>)
                            EXCEPT !.header.truncation = truncation[1]]
       IN probe' =
            IF truncation = None
            THEN [probe EXCEPT !.pc = "done", !.replies = Append(@, "err")]
            ELSE IF response.header.truncation
            THEN IF Last(probe.transports) = "tcp"
                 THEN [probe EXCEPT !.pc = "done", !.replies = Append(@, "tc")]
                 ELSE [probe EXCEPT !.pc = "loop", !.force_tcp = TRUE,
                                    !.replies = Append(@, "tc")]
            ELSE [probe EXCEPT !.pc = "done", !.result = Some(response),
                               !.replies = Append(@, "ok")]
    /\ UNCHANGED <<denylist, hosts, server_vars>>

\* The call returns to Resolver::resolve_with_upstream, which fills the
\* response to the client.
UpstreamReturn ==
    /\ probe.kind = "upstream" /\ probe.pc = "done"
    /\ probe' = [probe EXCEPT
            !.pc = "returned",
            !.response_code =
                resolve_with_upstream(probe.result,
                    get_response_dns_packet(Some(QueryPacket(TRUE, <<probe.question>>, None)))
                ).response_packet.header.response_code]
    /\ UNCHANGED <<denylist, hosts, server_vars>>

NextUpstream ==
    \/ \E question \in {Question(NameAB, TypeA), Question(NameCAB, TypeAAAA),
                        Question(NameAB, TypeNS), Question(LongName, TypeA)},
          enable_dnssec \in BOOLEAN : UpstreamCall(question, enable_dnssec)
    \/ \E ok \in BOOLEAN : UpstreamConnect(ok)
    \/ \E ok \in BOOLEAN : UpstreamSend(ok)
    \/ \E truncation \in {None, Some(TRUE), Some(FALSE)} : UpstreamRead(truncation)
    \/ UpstreamReturn

\* Every step of the call itself happens once it can; when the upstream
\* resolver replies, if ever, is up to the resolver: connection.read sets no
\* timer.
SpecUpstream ==
    /\ Init /\ [][NextUpstream]_vars
    /\ WF_vars(\E ok \in BOOLEAN : UpstreamConnect(ok))
    /\ WF_vars(\E ok \in BOOLEAN : UpstreamSend(ok))
    /\ WF_vars(UpstreamReturn)

----------------------------------------------------------------------------
(* DnsPacket::encode_to_buf on its own: one packet, one max_size.          *)

\* A name of one label of 64 bytes: read_qname takes any length byte that is
\* not a pointer for a label, so a decoded packet can hold it.
OverlongName == [i \in 1..(MAX_LABEL_LEN + 1) |-> "a"]

\* The packets encoded: valid ones, whose header counts are the lengths of
\* the sections and whose edns is the position of the OPT record.
EncodePackets ==
    LET A(name) == ResourceRecord(name, RecordA("192.0.2.1"), 60, IN_CLASS)
        AAAA(name) == ResourceRecord(name, RecordAAAA("::1"), 60, IN_CLASS)
        OPT == get_edns_rr(DEFAULT_EDNS_BUF_CAPACITY, None)
        OptAt(additionals) ==
            IF \E i \in 1..Len(additionals) : additionals[i] = OPT
            THEN Some((CHOOSE i \in 1..Len(additionals) : additionals[i] = OPT) - 1)
            ELSE None
        headers ==
            {[DefaultHeader EXCEPT !.id = 7, !.recursion_desired = TRUE, !.z[2] = TRUE],
             [DefaultHeader EXCEPT !.id = 9, !.is_response = TRUE, !.is_authoritative = TRUE,
                                   !.recursion_available = TRUE, !.z[3] = TRUE,
                                   !.response_code = "NameError"],
             [DefaultHeader EXCEPT !.id = 9, !.is_response = TRUE, !.truncation = TRUE]}
        questions ==
            {<<>>, <<Question(NameAB, TypeA)>>,
             <<Question(NameCAB, TypeA), Question(NameAB, TypeA)>>,
             <<Question(OverlongName, TypeA)>>}
        answers ==
            {<<>>, <<A(NameAB)>>, <<AAAA(NameAB), A(NameAB)>>,
             <<A(NameCAB), A(NameAB)>>, <<A(NameAB), AAAA(NameCAB)>>}
        \* a name server under the name it serves
        NS(name, ns_domain_name) ==
            ResourceRecord(name, RecordNS(ns_domain_name), 60, IN_CLASS)
        authorities == {<<>>, <<A(NameCAB)>>, <<NS(NameAB, NameCAB)>>}
        additionals == {<<>>, <<OPT>>, <<A(NameAB), OPT>>, <<OPT, AAAA(NameAB)>>}
    IN {[header |-> [h EXCEPT !.question_count = Len(q), !.answer_rr_count = Len(an),
                              !.authority_rr_count = Len(au),
                              !.additional_rr_count = Len(ad)],
         edns |-> OptAt(ad), questions |-> q, answers |-> an, authorities |-> au,
         additionals |-> ad] :
            h \in headers, q \in questions, an \in answers, au \in authorities,
            ad \in additionals}

InitEncode ==
    /\ denylist = EmptyDenylist
    /\ hosts = EmptyHosts
    /\ InitServer
    /\ probe \in {[kind |-> "encode", pc |-> "input", packet |-> packet,
                   max_size |-> max_size] :
                    packet \in EncodePackets,
                    max_size \in {None} \cup {Some(m) : m \in 0..MaxEncodeSize}}

\* packet.encode_to_buf(&mut buf, max_size) on an empty buffer
Encode ==
    /\ probe.kind = "encode" /\ probe.pc = "input"
    /\ probe' = [kind |-> "encode", pc |-> "encoded", packet |-> probe.packet,
                 max_size |-> probe.max_size,
                 out |-> encode_to_buf(probe.packet, probe.max_size)]
    /\ UNCHANGED <<denylist, hosts, server_vars>>

SpecEncode == InitEncode /\ [][Encode]_vars

----------------------------------------------------------------------------
(* Caching: Cache::cache_response applied to responses of every response   *)
(* code, with records of several TTLs in their sections.                   *)

ResponseCodes ==
    {"Success", "FormatError", "ServerFailure", "NameError", "NotImplemented", "Refused",
     "Unknown"}

\* The TTLs of the records: on both sides of the 15 seconds below which
\* nothing is cached.
CacheTtls == {0, 14, 15, 20, 300}

\* Responses to the question a.b A: nothing, one address or two in the
\* answers; nothing or a name server in the authorities; nothing, an OPT
\* record (whose TTL field, the flags, is 0) or an address and an OPT record in
\* the additionals.
CachePackets ==
    LET Address(name, ttl) == ResourceRecord(name, RecordA("192.0.2.1"), ttl, IN_CLASS)
        answers == {<<>>} \cup {<<Address(NameAB, ttl)>> : ttl \in CacheTtls}
                    \cup {<<Address(NameAB, 300), Address(NameCAB, ttl)>> : ttl \in CacheTtls}
        authorities == {<<>>} \cup {<<ResourceRecord(NameAB, RecordNS(NameCAB), ttl, IN_CLASS)>> :
                                        ttl \in {14, 60}}
        additionals == {<<>>, <<get_edns_rr(DEFAULT_EDNS_BUF_CAPACITY, None)>>,
                        <<Address(NameCAB, 15),
                          get_edns_rr(DEFAULT_EDNS_BUF_CAPACITY, Some(EDNS_DO_BIT))>>}
    IN {[NewDnsPacket EXCEPT
            !.header.is_response = TRUE,
            !.header.response_code = rcode,
            !.header.z[2] = ad,
            !.header.question_count = 1,
            !.questions = <<Question(NameAB, TypeA)>>,
            !.header.answer_rr_count = Len(an), !.answers = an,
            !.header.authority_rr_count = Len(au), !.authorities = au,
            !.header.additional_rr_count = Len(add), !.additionals = add,
            !.edns = IF add = <<>> THEN None ELSE Some(Len(add) - 1)] :
            rcode \in ResponseCodes, ad \in BOOLEAN, an \in answers, au \in authorities,
            add \in additionals}

\* The cache the response goes into: empty, or holding what an earlier
\* response to the same question left at time 0.
CachesBefore ==
    {EmptyCache,
     cache_response(EmptyCache,
                    UpstreamReply(Question(NameAB, TypeA), "Success", FALSE,
                                  <<UpstreamRecord(20)>>), 0).cache}

InitCaching ==
    /\ denylist = EmptyDenylist
    /\ hosts = EmptyHosts
    /\ InitServer
    /\ probe \in {[kind |-> "cache", pc |-> "input", response |-> response,
                   cache |-> before, t |-> TickStep] :
                    response \in CachePackets, before \in CachesBefore}

\* cache.cache_response(&response) at time t
CacheResponse ==
    /\ probe.kind = "cache" /\ probe.pc = "input"
    /\ probe' = [probe EXCEPT !.pc = "cached"] @@
                [out |-> cache_response(probe.cache, probe.response, probe.t)]
    /\ UNCHANGED <<denylist, hosts, server_vars>>

SpecCaching == InitCaching /\ [][CacheResponse]_vars

----------------------------------------------------------------------------
(* The round trip: packets encoded without a max_size and decoded again.   *)

\* Packets with one question, answer or additional record of a less common
\* shape: a name with a trailing dot, types the server has no name for,
\* an unknown type under the number of a known one, OPT records with options
\* and with an empty map of options.
OddPackets ==
    LET header == [DefaultHeader EXCEPT !.id = 7, !.recursion_desired = TRUE]
        Unknown(code) ==
            ResourceRecord(NameAB, [qtype |-> UNKNOWN(code), data |-> <<1, 2, 3>>],
                           60, IN_CLASS)
        Opt(options) ==
            ResourceRecord(<<>>, [qtype |-> TypeOPT, data |-> options],
                           0, DEFAULT_EDNS_BUF_CAPACITY)
        questions ==
            {<<Question(NameAB \o <<".">>, TypeA)>>, <<Question(<<>>, TypeNS)>>,
             <<Question(NameAB, UNKNOWN(1))>>, <<Question(NameAB, UNKNOWN(65535))>>,
             <<Question(NameAB, TypeANY)>>}
        answers ==
            {<<>>, <<Unknown(65535)>>, <<Unknown(255)>>, <<Unknown(1)>>,
             <<ResourceRecord(NameCAB, RecordCNAME(NameAB), 70000, IN_CLASS),
               ResourceRecord(NameAB, RecordA("10.0.0.1"), 60, IN_CLASS)>>,
             <<ResourceRecord(NameAB, RecordCNAME(NameCAB \o <<".">>), 60, IN_CLASS)>>}
        additionals ==
            {<<>>, <<Opt(None)>>, <<Opt(Some(<<>>))>>,
             <<Opt(Some(MapInsert(MapInsert(<<>>, 10, <<1, 2>>), 3, <<>>)))>>}
    IN {[header |-> [header EXCEPT !.question_count = Len(q), !.answer_rr_count = Len(an),
                                   !.additional_rr_count = Len(ad)],
         edns |-> IF ad = <<>> THEN None ELSE Some(0),
         questions |-> q, answers |-> an, authorities |-> <<>>, additionals |-> ad] :
            q \in questions, an \in answers, ad \in additionals}

InitRoundTrip ==
    /\ denylist = EmptyDenylist
    /\ hosts = EmptyHosts
    /\ InitServer
    /\ probe \in {[kind |-> "encode", pc |-> "input", packet |-> packet,
                   max_size |-> None] : packet \in EncodePackets \cup OddPackets}

\* DnsPacket::from_buf on the buffer the packet was encoded into
Decode ==
    /\ probe.kind = "encode" /\ probe.pc = "encoded"
    /\ probe.out.ok
    /\ probe' = [kind |-> "encode", pc |-> "decoded", packet |-> probe.packet,
                 max_size |-> probe.max_size, out |-> probe.out,
                 decoded |-> DnsPacket_from_buf(probe.out.buf)]
    /\ UNCHANGED <<denylist, hosts, server_vars>>

NextRoundTrip == Encode \/ Decode

SpecRoundTrip == InitRoundTrip /\ [][NextRoundTrip]_vars

----------------------------------------------------------------------------
(* Names on their own: lists of names written into one buffer with one     *)
(* label cache and read back, and raw buffers read as a name.              *)

NameNAB == <<"n", ".", "a", ".", "b">>

\* The names written: names that share suffixes, a name with a trailing dot
\* and a name with a label of 64 bytes.
QnamePool == {NameAB, NameCAB, NameNAB, <<"b">>, NameAB \o <<".">>, OverlongName}

\* The raw buffers read from position 0: well-formed names, a name with a
\* dot inside a label, labels announced with a length byte of 64 and of 191,
\* pointers that loop, bytes that are not UTF-8 and buffers that end early.
QnameBuffers ==
    LET Label(n) == <<n>> \o [i \in 1..n |-> 97]
    IN {<<0>>, <<1, 97, 0>>, <<1, 97, 1, 98, 0>>, <<3, 97, 46, 98, 0>>,
        Label(MAX_LABEL_LEN) \o <<0>>, Label(MAX_LABEL_LEN + 1) \o <<0>>,
        Label(191) \o <<0>>, Label(MAX_LABEL_LEN + 1), <<64, 97, 0>>,
        <<192, 0>>, <<1, 97, 192, 0>>, <<192, 3, 0, 1, 98, 0>>, <<192, 2, 192, 0>>,
        <<1, 200, 0>>, <<3, 97>>, <<1, 97>>, <<192>>, <<>>}

InitQname ==
    /\ denylist = EmptyDenylist
    /\ hosts = EmptyHosts
    /\ InitServer
    /\ probe \in
        {[kind |-> "qname", pc |-> "write", names |-> names, buf |-> prefix,
          label_cache |-> <<>>, written |-> <<>>, read |-> <<>>] :
            names \in UNION {[1..n -> QnamePool] : n \in 1..MaxQnames},
            \* the buffer is empty or holds the 12 bytes of a header
            prefix \in {<<>>, [i \in 1..12 |-> 0]}}
        \cup {[kind |-> "qname", pc |-> "read", names |-> <<>>, buf |-> raw,
               label_cache |-> <<>>,
               written |-> <<[ok |-> TRUE, start |-> 0, len |-> Len(raw)]>>,
               read |-> <<>>] : raw \in QnameBuffers}

\* buf.write_qname(name, Some(&mut label_cache)) for the next name of the
\* list; an Err ends the writing.
WriteQname ==
    /\ probe.kind = "qname" /\ probe.pc = "write"
    /\ LET k == Len(probe.written) + 1
           w == write_qname(probe.buf, probe.names[k], probe.label_cache)
       IN probe' = [probe EXCEPT
                        !.buf = w.buf, !.label_cache = w.label_cache,
                        !.written = Append(@, [ok |-> w.ok, start |-> Len(probe.buf),
                                               len |-> w.len]),
                        !.pc = IF ~w.ok THEN "failed"
                               ELSE IF k = Len(probe.names) THEN "read" ELSE "write"]
    /\ UNCHANGED <<denylist, hosts, server_vars>>

\* buf.read_qname() with the buffer at the position the next name starts at;
\* a read that never returns leaves the probe at "hangs".
ReadQname ==
    /\ probe.kind = "qname" /\ probe.pc = "read"
    /\ Len(probe.read) < Len(probe.written)
    /\ LET r == read_qname(probe.buf, probe.written[Len(probe.read) + 1].start)
       IN probe' = [probe EXCEPT !.read = Append(@, r),
                                 !.pc = IF r.hangs THEN "hangs" ELSE @]
    /\ UNCHANGED <<denylist, hosts, server_vars>>

\* write_qname of the last name read, into an empty buffer
RewriteQname ==
    /\ probe.kind = "qname" /\ probe.pc = "read"
    /\ Len(probe.read) = Len(probe.written)
    /\ Last(probe.read).ok
    /\ probe' = [kind |-> "qname", pc |-> "rewritten", names |-> probe.names,
                 buf |-> probe.buf, label_cache |-> probe.label_cache,
                 written |-> probe.written, read |-> probe.read,
                 again |-> write_qname(<<>>, Last(probe.read).qname, <<>>)]
    /\ UNCHANGED <<denylist, hosts, server_vars>>

NextQname == WriteQname \/ ReadQname \/ RewriteQname

SpecQname == InitQname /\ [][NextQname]_vars

----------------------------------------------------------------------------
(* Locks: the RwLocks of State (denylist, hosts, cache) as the query       *)
(* subtasks and the command processing take and drop them.                 *)

LockNames == {"denylist", "hosts", "cache"}

\* The tasks: the query subtasks and, last, the processing of commands.
LockTasks == 1..(MaxLockQueries + 1)
CommandTask == MaxLockQueries + 1

\* The lock a task takes at a stage and how: denylist_lookup, allowlist_lookup
\* and cache_lookup read; cache_response, add_list_entry and remove_list_entry
\* write.
stage_lock(pc) ==
    CASE pc = "denylist" -> [lock |-> "denylist", mode |-> "read"]
      [] pc = "hosts" -> [lock |-> "hosts", mode |-> "read"]
      [] pc = "cache" -> [lock |-> "cache", mode |-> "read"]
      [] pc = "cache_write" -> [lock |-> "cache", mode |-> "write"]
      [] pc = "list_denylist" -> [lock |-> "denylist", mode |-> "write"]
      [] pc = "list_hosts" -> [lock |-> "hosts", mode |-> "write"]

LockStages == {"denylist", "hosts", "cache", "cache_write", "list_denylist", "list_hosts"}

\* A guard that would live until resolve_query returns.
guard_dropped_at_return(pc) == pc \in {"list_denylist", "list_hosts"}

\* Whether the guard taken at a stage is gone when the stage ends: drop(cache)
\* in denylist_lookup, the end of allowlist_lookup and of cache_lookup, the
\* end of the `if cache_response` block, the end of the match arm.
guard_dropped(pc) == pc \in LockStages

\* The stage after a lookup, by its outcome.
after_stage(pc, outcome) ==
    CASE pc = "denylist" -> IF outcome = "hit" THEN "encode" ELSE "hosts"
      [] pc = "hosts" -> IF outcome = "hit" THEN "encode"
                         ELSE IF outcome = "norecurse" THEN "encode" ELSE "cache"
      [] pc = "cache" -> IF outcome = "hit" THEN "encode" ELSE "upstream"
      [] pc = "cache_write" -> "send"
      [] pc \in {"list_denylist", "list_hosts"} -> "idle"

FreeLock == [readers |-> {}, writer |-> {}, queue |-> <<>>]

InitLocks ==
    /\ denylist = EmptyDenylist
    /\ hosts = EmptyHosts
    /\ InitServer
    /\ probe = [kind |-> "locks",
                task |-> [t \in LockTasks |->
                            [pc |-> IF t = CommandTask THEN "idle" ELSE "denylist",
                             held |-> {}, waits |-> FALSE, cache_response |-> FALSE,
                             commands |-> 0]],
                lock |-> [l \in LockNames |-> FreeLock]]

\* lock.read().await / lock.write().await is called: the task joins the
\* queue of the lock.
LockRequest(t) ==
    /\ probe.kind = "locks"
    /\ probe.task[t].pc \in LockStages
    /\ ~probe.task[t].waits
    /\ stage_lock(probe.task[t].pc).lock \notin probe.task[t].held
    /\ probe' = [probe EXCEPT
                    !.task[t].waits = TRUE,
                    !.lock[stage_lock(probe.task[t].pc).lock].queue = Append(@, t)]
    /\ UNCHANGED <<denylist, hosts, server_vars>>

\* tokio's RwLock hands the lock out in the order of the requests: the first
\* of the queue gets it once no writer holds it and, for a write, no reader.
LockGrant(t) ==
    /\ probe.kind = "locks"
    /\ probe.task[t].waits
    /\ LET want == stage_lock(probe.task[t].pc)
           lock == probe.lock[want.lock]
       IN /\ lock.queue # <<>> /\ Head(lock.queue) = t
          /\ lock.writer = {}
          /\ want.mode = "write" => lock.readers = {}
          /\ probe' = [probe EXCEPT
                        !.task[t].waits = FALSE,
                        !.task[t].held = @ \cup {want.lock},
                        !.lock[want.lock] =
                            [readers |-> IF want.mode = "read" THEN lock.readers \cup {t}
                                         ELSE lock.readers,
                             writer |-> IF want.mode = "write" THEN {t} ELSE {},
                             queue |-> Tail(lock.queue)]]
    /\ UNCHANGED <<denylist, hosts, server_vars>>

\* The stage ends with the lock held: the guard is dropped and the task goes
\* on by the outcome of the stage.
LockRelease(t, outcome) ==
    /\ probe.kind = "locks"
    /\ probe.task[t].pc \in LockStages
    /\ stage_lock(probe.task[t].pc).lock \in probe.task[t].held
    /\ ~probe.task[t].waits
    /\ outcome = "norecurse" => probe.task[t].pc = "hosts"
    /\ LET pc == probe.task[t].pc
           l == stage_lock(pc).lock
           dropped == IF guard_dropped(pc) THEN {l} ELSE {}
       IN probe' = [probe EXCEPT
                        !.task[t].pc = after_stage(pc, outcome),
                        !.task[t].held = @ \ dropped,
                        !.lock[l].readers = @ \ (IF l \in dropped THEN {t} ELSE {}),
                        !.lock[l].writer = @ \ (IF l \in dropped THEN {t} ELSE {})]
    /\ UNCHANGED <<denylist, hosts, server_vars>>

\* resolve_with_upstream returns, with a reply or an Err, after any time.
LockUpstream(t) ==
    /\ probe.kind = "locks"
    /\ probe.task[t].pc = "upstream"
    /\ probe' = [probe EXCEPT !.task[t].pc = "encode", !.task[t].cache_response = TRUE]
    /\ UNCHANGED <<denylist, hosts, server_vars>>

\* The response is encoded; `if cache_response` decides on the write lock.
LockEncode(t) ==
    /\ probe.kind = "locks"
    /\ probe.task[t].pc = "encode"
    /\ probe' = [probe EXCEPT
                    !.task[t].pc = IF probe.task[t].cache_response THEN "cache_write"
                                   ELSE "send"]
    /\ UNCHANGED <<denylist, hosts, server_vars>>

\* send_encoded_packet returns and resolve_query with it: every guard still
\* alive is dropped.
LockSend(t) ==
    /\ probe.kind = "locks"
    /\ probe.task[t].pc = "send"
    /\ probe' = [probe EXCEPT
                    !.task[t].pc = "done",
                    !.task[t].held = {},
                    !.lock = [l \in LockNames |->
                                [probe.lock[l] EXCEPT !.readers = @ \ {t},
                                                      !.writer = @ \ {t}]]]
    /\ UNCHANGED <<denylist, hosts, server_vars>>

\* A command is received: add_list_entry or remove_list_entry for an entry of
\* the denylist or of the hosts file.
LockCommand(stage) ==
    /\ probe.kind = "locks"
    /\ probe.task[CommandTask].pc = "idle"
    /\ probe.task[CommandTask].commands < MaxLockCommands
    /\ probe' = [probe EXCEPT !.task[CommandTask].pc = stage,
                              !.task[CommandTask].commands = @ + 1]
    /\ UNCHANGED <<denylist, hosts, server_vars>>

NextLocks ==
    \/ \E t \in LockTasks : LockRequest(t)
    \/ \E t \in LockTasks : LockGrant(t)
    \/ \E t \in LockTasks, outcome \in {"hit", "miss", "norecurse"} : LockRelease(t, outcome)
    \/ \E t \in LockTasks : LockUpstream(t)
    \/ \E t \in LockTasks : LockEncode(t)
    \/ \E t \in LockTasks : LockSend(t)
    \/ \E stage \in {"list_denylist", "list_hosts"} : LockCommand(stage)

SpecLocks == InitLocks /\ [][NextLocks]_vars

----------------------------------------------------------------------------
(* The accept loop: one worker of handle_incoming_requests, its peers and  *)
(* the query subtasks it has spawned.                                      *)

\* udp: datagrams waiting in the socket; backlog: TCP connections waiting to
\* be accepted; pc: where the worker is, in the select! or in the
\* Connection::read of the connection it accepted; length_sent and
\* message_sent: what the client of that connection has sent so far;
\* upstream: subtasks waiting for the upstream resolver; finished: subtasks
\* whose result waits for join_next; arrived: messages and connections so far.
InitAccept ==
    /\ denylist = EmptyDenylist
    /\ hosts = EmptyHosts
    /\ InitServer
    /\ probe = [kind |-> "accept", pc |-> "select", udp |-> 0, backlog |-> 0,
                length_sent |-> FALSE, message_sent |-> FALSE,
                upstream |-> 0, finished |-> 0, arrived |-> 0, spawned |-> 0]

\* A peer sends a datagram.
PeerSendsDatagram ==
    /\ probe.kind = "accept" /\ probe.arrived < MaxArrivals
    /\ probe' = [probe EXCEPT !.udp = @ + 1, !.arrived = @ + 1]
    /\ UNCHANGED <<denylist, hosts, server_vars>>

\* A peer opens a TCP connection.
PeerConnects ==
    /\ probe.kind = "accept" /\ probe.arrived < MaxArrivals
    /\ probe' = [probe EXCEPT !.backlog = @ + 1, !.arrived = @ + 1]
    /\ UNCHANGED <<denylist, hosts, server_vars>>

\* The client of the accepted connection sends the two bytes of the length
\* or, after them, the message: when it likes.
ClientSends ==
    /\ probe.kind = "accept" /\ probe.pc \in {"read_length", "read_message"}
    /\ ~probe.message_sent
    /\ probe' = IF probe.length_sent THEN [probe EXCEPT !.message_sent = TRUE]
                ELSE [probe EXCEPT !.length_sent = TRUE]
    /\ UNCHANGED <<denylist, hosts, server_vars>>

\* select!: udp_socket.recv_from completes; the query is parsed and
\* resolve_query is spawned on it, and the loop goes round.
LoopRecvFrom ==
    /\ probe.kind = "accept" /\ probe.pc = "select"
    /\ probe.udp > 0
    /\ probe' = [probe EXCEPT !.udp = @ - 1, !.upstream = @ + 1, !.spawned = @ + 1]
    /\ UNCHANGED <<denylist, hosts, server_vars>>

\* select!: tcp_listener.accept completes; the branch goes on to
\* connection.read(&mut recv).await, in the loop itself.
LoopAccept ==
    /\ probe.kind = "accept" /\ probe.pc = "select"
    /\ probe.backlog > 0
    /\ probe' = [probe EXCEPT !.backlog = @ - 1, !.pc = "read_length",
                              !.length_sent = FALSE, !.message_sent = FALSE]
    /\ UNCHANGED <<denylist, hosts, server_vars>>

\* Connection::read: socket.read_u16().await returns once the length is there.
LoopReadLength ==
    /\ probe.kind = "accept" /\ probe.pc = "read_length"
    /\ probe.length_sent
    /\ probe' = [probe EXCEPT !.pc = "read_message"]
    /\ UNCHANGED <<denylist, hosts, server_vars>>

\* Connection::read: socket.read_exact().await returns once the message is
\* there; resolve_query is spawned and the loop goes round.
LoopReadMessage ==
    /\ probe.kind = "accept" /\ probe.pc = "read_message"
    /\ probe.message_sent
    /\ probe' = [probe EXCEPT !.pc = "select", !.upstream = @ + 1, !.spawned = @ + 1]
    /\ UNCHANGED <<denylist, hosts, server_vars>>

\* The client closes the connection: read returns Err and the loop continues.
LoopReadFails ==
    /\ probe.kind = "accept" /\ probe.pc \in {"read_length", "read_message"}
    /\ probe' = [probe EXCEPT !.pc = "select"]
    /\ UNCHANGED <<denylist, hosts, server_vars>>

\* The upstream resolver answers a subtask, after any time; the subtask
\* finishes.
SubtaskFinishes ==
    /\ probe.kind = "accept" /\ probe.upstream > 0
    /\ probe' = [probe EXCEPT !.upstream = @ - 1, !.finished = @ + 1]
    /\ UNCHANGED <<denylist, hosts, server_vars>>

\* select!: handlers.join_next yields the Ok of a subtask.
LoopJoinNext ==
    /\ probe.kind = "accept" /\ probe.pc = "select"
    /\ probe.finished > 0
    /\ probe' = [probe EXCEPT !.finished = @ - 1]
    /\ UNCHANGED <<denylist, hosts, server_vars>>

NextAccept ==
    \/ PeerSendsDatagram
    \/ PeerConnects
    \/ ClientSends
    \/ LoopRecvFrom
    \/ LoopAccept
    \/ LoopReadLength
    \/ LoopReadMessage
    \/ LoopReadFails
    \/ SubtaskFinishes
    \/ LoopJoinNext

SpecAccept == InitAccept /\ [][NextAccept]_vars

----------------------------------------------------------------------------
(* The receive buffer: `recv`, which a worker allocates once and reads     *)
(* every message into, and what DnsPacket::from_buf makes of it.           *)

\* vec![0; DEFAULT_EDNS_BUF_CAPACITY]
FreshRecv == [i \in 1..DEFAULT_EDNS_BUF_CAPACITY |-> 0]

\* udp_socket.recv_from(&mut recv) and read_exact(&mut dst[..length]): the
\* bytes of the message go to the front of the buffer, the rest stays.
recv_into(recv, message) ==
    message \o SubSeq(recv, Len(message) + 1, Len(recv))

\* The messages peers send: the queries a.b A and c.a.b A, the latter with an
\* OPT record too, as their sender encodes them; the first 12 and the first 14
\* bytes of the query a.b A, whose header announces a question that is not
\* there; and a datagram without bytes.
RecvMessages ==
    LET query(name, edns_rr) ==
            encode_to_buf(QueryPacket(TRUE, <<Question(name, TypeA)>>, edns_rr), None).buf
    IN {query(NameAB, None), query(NameCAB, None),
        query(NameCAB, RequestorOpt(DEFAULT_EDNS_BUF_CAPACITY, FALSE)),
        SubSeq(query(NameAB, None), 1, 12), SubSeq(query(NameAB, None), 1, 14), <<>>}

InitRecv ==
    /\ denylist = EmptyDenylist
    /\ hosts = EmptyHosts
    /\ InitServer
    /\ probe = [kind |-> "recv", recv |-> FreshRecv, received |-> 0, message |-> <<>>,
                is_tcp |-> FALSE, parsed |-> None]

\* One round of the loop of handle_incoming_requests: a message is read into
\* recv, by recv_from or after accept by Connection::read, and
\* DnsPacket::from_buf(&mut ByteBuf::new(&recv)) is handed to resolve_query.
LoopReceive(message, is_tcp) ==
    /\ probe.kind = "recv"
    /\ probe.received < MaxReceived
    /\ \E buf \in {recv_into(probe.recv, message)} :
        probe' = [kind |-> "recv", recv |-> buf, received |-> probe.received + 1,
                  message |-> message, is_tcp |-> is_tcp,
                  parsed |-> Some(DnsPacket_from_buf(buf))]
    /\ UNCHANGED <<denylist, hosts, server_vars>>

NextRecv == \E message \in RecvMessages, is_tcp \in BOOLEAN : LoopReceive(message, is_tcp)

SpecRecv == InitRecv /\ [][NextRecv]_vars

----------------------------------------------------------------------------
(* The lists on their own: the list operations applied in any order, and   *)
(* membership lookups for every name of ListNames.                         *)

\* Every hash a lookup of a name of ListNames can compute.
EntryPool ==
    {hash_to_u128(n, NoPrefix) : n \in ListNames}
        \cup {hash_to_u128(n, WildcardPrefix) : n \in ListNames}

HostKeyPool ==
    {hash_to_u128(<<"a", ".", "a">>, NoPrefix),
     hash_to_u128(<<"a">>, WildcardPrefix),
     hash_to_u128(<<"a", ".", "a">>, WildcardPrefix)}

HostRecordPool == {RecordA("10.0.0.1"), RecordAAAA("fd00::1"), RecordNS("ns.a")}

InitLists ==
    /\ denylist = EmptyDenylist
    /\ hosts = EmptyHosts
    /\ probe = NoProbe
    /\ InitServer

DenylistAddEntry(h) ==
    /\ Cardinality(denylist.entries) < MaxDenyEntries
    /\ denylist' = Denylist_add_entry(denylist, h)
    /\ probe' = NoProbe
    /\ UNCHANGED hosts
    /\ UNCHANGED server_vars

DenylistRemoveEntry(h) ==
    /\ h \in denylist.entries
    /\ denylist' = Denylist_remove_entry(denylist, h)
    /\ probe' = NoProbe
    /\ UNCHANGED hosts
    /\ UNCHANGED server_vars

DenylistAddRegex(id, re) ==
    /\ Len(denylist.regexes) < MaxRegexes
    /\ denylist' = add_regex(denylist, id, re)
    /\ probe' = NoProbe
    /\ UNCHANGED hosts
    /\ UNCHANGED server_vars

DenylistRemoveRegex(id) ==
    /\ \E i \in 1..Len(denylist.regexes) : denylist.regexes[i].id = id
    /\ denylist' = remove_regex(denylist, id)
    /\ probe' = NoProbe
    /\ UNCHANGED hosts
    /\ UNCHANGED server_vars

DenylistLookup(qname) ==
    /\ probe' = [kind |-> "denylist", qname |-> qname,
                 result |-> contains_entry(denylist, qname)]
    /\ UNCHANGED <<denylist, hosts>>
    /\ UNCHANGED server_vars

HostsAddEntry(h, rdata) ==
    /\ h \in DOMAIN hosts => Len(hosts[h]) < MaxHostRecords
    /\ hosts' = Hosts_add_entry(hosts, h, rdata).map
    /\ probe' = [kind |-> "hosts_add", ok |-> Hosts_add_entry(hosts, h, rdata).ok,
                 before |-> hosts, qname_hash |-> h, rdata |-> rdata]
    /\ UNCHANGED denylist
    /\ UNCHANGED server_vars

HostsRemoveEntry(h, qtype) ==
    /\ h \in DOMAIN hosts
    /\ hosts' = Hosts_remove_entry(hosts, h, qtype)
    /\ probe' = NoProbe
    /\ UNCHANGED denylist
    /\ UNCHANGED server_vars

HostsLookup(qname) ==
    /\ probe' = [kind |-> "hosts", qname |-> qname, result |-> get_entry(hosts, qname)]
    /\ UNCHANGED <<denylist, hosts>>
    /\ UNCHANGED server_vars

NextDenylist ==
    \/ \E h \in EntryPool : DenylistAddEntry(h)
    \/ \E h \in EntryPool : DenylistRemoveEntry(h)
    \/ \E id \in RegexIds, re \in RegexPool : DenylistAddRegex(id, re)
    \/ \E id \in RegexIds : DenylistRemoveRegex(id)
    \/ \E qname \in ListNames : DenylistLookup(qname)

SpecDenylist == InitLists /\ [][NextDenylist]_vars

NextHosts ==
    \/ \E h \in HostKeyPool, rdata \in HostRecordPool : HostsAddEntry(h, rdata)
    \/ \E h \in HostKeyPool, qtype \in {TypeA, TypeAAAA} : HostsRemoveEntry(h, qtype)
    \/ \E qname \in ListNames : HostsLookup(qname)

SpecHosts == InitLists /\ [][NextHosts]_vars

----------------------------------------------------------------------------
(* Claims about the lists *)

\* The suffixes of q that follow one of its dots and begin with a non-empty
\* label: q with one or more leading labels removed.
ParentSuffixes(q) ==
    {SubSeq(q, i + 1, Len(q)) : i \in {j \in 1..(Len(q) - 1) : q[j] = "." /\ q[j + 1] # "."}}

DenylistMatches(dl, q, suffixes) ==
    \/ hash_to_u128(q, NoPrefix) \in dl.entries
    \/ \E s \in suffixes : hash_to_u128(s, WildcardPrefix) \in dl.entries
    \/ \E i \in 1..Len(dl.regexes) : is_match(dl.regexes[i].re, q)

CaseEqual(q1, q2) == to_ascii_lowercase(q1) = to_ascii_lowercase(q2)

\* C9: the outcome of a denylist or hosts lookup does not depend on the letter
\* case of the query name: every name equal to the looked-up one up to ASCII
\* case gets the same answer from the same list.
C9_LookupIgnoresCase ==
    /\ probe.kind = "denylist" =>
            \A q2 \in ListNames :
                CaseEqual(q2, probe.qname) => contains_entry(denylist, q2) = probe.result
    /\ probe.kind = "hosts" =>
            \A q2 \in ListNames :
                CaseEqual(q2, probe.qname) => get_entry(hosts, q2) = probe.result

----------------------------------------------------------------------------
(* Claims about the server *)

Done(hd) == hd.pc = "done" /\ hd.result = "ok"

\* A decoded query with exactly one question.
WellFormed(hd) ==
    /\ hd # NoHandler
    /\ hd.parsed_packet # None
    /\ Len(hd.parsed_packet[1].questions) = 1

QuestionOf(hd) == hd.parsed_packet[1].questions[1]

RdOf(hd) == hd.parsed_packet[1].header.recursion_desired

StageOrder == <<"denylist", "hosts", "rd", "cache", "upstream">>

IsPrefix(s, t) == Len(s) <= Len(t) /\ SubSeq(t, 1, Len(s)) = s

\* The hosts list holds a record of the asked type under the asked name.
HostsAnswer(map, question) ==
    /\ get_entry(map, question.qname) # None
    /\ \E i \in 1..Len(get_entry(map, question.qname)[1]) :
          \/ question.query_type = TypeANY
          \/ get_query_type(get_entry(map, question.qname)[1][i]) = question.query_type

InQueryCache(question) == get_dns_query_hash(question) \in DOMAIN cache.query_cache

\* The stages a handler went through are an initial part of the fixed order,
\* and its source is that of the last stage it consulted.
C1_Trace(hd) ==
    /\ IsPrefix(hd.stages, StageOrder)
    /\ hd.source = Some("Denylist") => hd.stages = SubSeq(StageOrder, 1, 1)
    /\ hd.source = Some("Allowlist") => hd.stages = SubSeq(StageOrder, 1, 2)
    /\ hd.source = Some("NoRecurse") =>
            /\ hd.stages = SubSeq(StageOrder, 1, 3)
            /\ ~RdOf(hd)
            /\ hd.response_packet.answers = <<>>
    /\ hd.source = Some("Cache") =>
            hd.stages = SubSeq(StageOrder, 1, 4) /\ RdOf(hd) /\ hd.cache_why = "hit"
    /\ hd.source = Some("Upstream") =>
            /\ hd.stages = StageOrder
            /\ RdOf(hd)
            /\ hd.cache_why \in {"absent", "stale", "no_dnssec", "rr_missing", "ad_overridden"}

\* What a step of handler h decides: the first stage that answers wins.
C1_Step(h) ==
    LET hd == handlers[h]
        hd2 == handlers'[h]
    IN  /\ (WellFormed(hd) /\ hd.pc = "start" /\ hd2.pc \notin {"start", "none"}) =>
                IF contains_entry(denylist, QuestionOf(hd).qname)
                THEN hd2.pc = "encode" /\ hd2.source = Some("Denylist")
                ELSE hd2.pc = "hosts"
        /\ (hd.pc = "hosts" /\ hd2.pc \notin {"hosts", "none"}) =>
                IF HostsAnswer(hosts, QuestionOf(hd))
                THEN hd2.pc = "encode" /\ hd2.source = Some("Allowlist")
                ELSE IF ~RdOf(hd)
                THEN /\ hd2.pc = "encode"
                     /\ hd2.source = Some("NoRecurse")
                     /\ hd2.response_packet.answers = <<>>
                ELSE hd2.pc = "cache"
        /\ (hd.pc # "upstream" /\ hd2.pc = "upstream") =>
                hd.pc = "cache" /\ hd2.cache_why # "hit"

\* C1: resolve_query consults denylist, hosts list, recursion-desired check,
\* cache and upstream in this order and the first stage that answers decides
\* the response and its source: a name in the denylist is answered as Denylist
\* whatever the hosts list and the cache hold, a query with RD=0 that matches
\* neither list is answered with no records as NoRecurse without a cache or
\* upstream stage, and upstream is contacted only after a cache miss.
C1_StageOrder ==
    /\ [](\A h \in HandlerIds : handlers[h] # NoHandler /\ handlers[h].source # None
                                    => C1_Trace(handlers[h]))
    /\ [][\A h \in HandlerIds : handlers[h] # NoHandler => C1_Step(h)]_vars

\* A query answered as Denylist for a name that is also in the hosts list and
\* in the cache.
C1_Witness ==
    \E h \in HandlerIds :
        /\ WellFormed(handlers[h])
        /\ Done(handlers[h])
        /\ handlers[h].source = Some("Denylist")
        /\ HostsAnswer(hosts, QuestionOf(handlers[h]))
        /\ InQueryCache(QuestionOf(handlers[h]))

\* C2: whatever queries arrived, every worker is still running its accept loop
\* and the server is still running: no failure while handling one query
\* terminates a worker or the server.
C2_WorkersKeepRunning ==
    /\ server = "running"
    /\ \A w \in Workers : workers[w] = "running"

\* C3: while the upstream resolver keeps failing, every response to a query
\* that the lists do not answer and that asks for recursion has rcode
\* ServerFailure, a repeated question included.
C3_UpstreamFailureIsServerFailure ==
    \A h \in HandlerIds :
        (/\ handlers[h] # NoHandler
         /\ Done(handlers[h])
         /\ ~history.upstream_ok
         /\ handlers[h].source \in {Some("Cache"), Some("Upstream")})
        => handlers[h].response_packet.header.response_code = "ServerFailure"

\* C4: every entry of the query cache was inserted while handling a query whose
\* source was Upstream, and the query cache changes only when a handler with
\* source Upstream finishes.
C4_CacheOnlyFromUpstream ==
    /\ [](/\ DOMAIN history.origin = DOMAIN cache.query_cache
          /\ \A k \in DOMAIN history.origin : history.origin[k].source = Some("Upstream"))
    /\ [][cache' # cache =>
            \E h \in HandlerIds :
                /\ handlers[h].pc = "encode"
                /\ handlers'[h].pc = "done"
                /\ handlers[h].source = Some("Upstream")]_vars

\* A cache hit, a denylist answer or a FormatError response finished while the
\* cache holds an entry.
C4_Witness ==
    /\ cache.query_cache # <<>>
    /\ \E h \in HandlerIds :
        /\ handlers[h] # NoHandler
        /\ Done(handlers[h])
        /\ handlers[h].source \in {Some("Cache"), Some("Denylist"), None}

----------------------------------------------------------------------------
(* Claims about the cache *)

KeyOf(hd) == get_dns_query_hash(QuestionOf(hd))

\* The entry under key k was added ttd or more seconds before the time t.
EntryIsOld(k, t) == t - cache.query_cache[k].added >= cache.query_cache[k].ttd

\* A handler finishes a lookup it started in this state.
LooksUp(h) == handlers[h].pc = "cache" /\ handlers'[h].pc \notin {"cache", "none"}

\* C5: a cache lookup for a question whose entry was added ttd or more seconds
\* ago is a miss and the query goes upstream; the lookup leaves the cache as it
\* is, and an entry of the query cache stays, unchanged, until a handler that
\* caches a response for the same key replaces it.
C5_StaleIsMissAndStays ==
    [][/\ \A h \in HandlerIds :
            (/\ LooksUp(h)
             /\ KeyOf(handlers[h]) \in DOMAIN cache.query_cache
             /\ EntryIsOld(KeyOf(handlers[h]), now))
            => (/\ handlers'[h].pc = "upstream"
                /\ handlers'[h].source = None
                /\ cache' = cache)
       /\ \A k \in DOMAIN cache.query_cache :
            /\ k \in DOMAIN cache'.query_cache
            /\ cache'.query_cache[k] # cache.query_cache[k] =>
                    \E h \in HandlerIds :
                        /\ handlers[h].pc = "encode"
                        /\ handlers[h].cache_response
                        /\ KeyOf(handlers[h]) = k
                        /\ handlers'[h].pc = "done"]_vars

\* A lookup found a stale entry, the query is on its way upstream and the
\* entry is still in the map.
C5_Witness ==
    \E h \in HandlerIds :
        /\ handlers[h].pc = "upstream"
        /\ handlers[h].cache_why = "stale"
        /\ KeyOf(handlers[h]) \in DOMAIN cache.query_cache
        /\ EntryIsOld(KeyOf(handlers[h]), handlers[h].hit_at)

\* C6: a query with the DO bit is never answered from a cache entry stored
\* without the DNSSEC flag: the lookup of such an entry is a miss, and the
\* entry a DO=1 query is served from was cached for a DO=1 query.
C6_DnssecGate ==
    /\ [](\A h \in HandlerIds :
            (/\ handlers[h] # NoHandler
             /\ handlers[h].source = Some("Cache")
             /\ handlers[h].dnssec)
            => (/\ handlers[h].hit_origin # None
                /\ handlers[h].hit_origin[1].query.dnssec))
    /\ [][\A h \in HandlerIds :
            (/\ LooksUp(h)
             /\ handlers[h].dnssec
             /\ KeyOf(handlers[h]) \in DOMAIN cache.query_cache
             /\ ~cache.query_cache[KeyOf(handlers[h])].flags.DNSSEC)
            => (handlers'[h].pc = "upstream" /\ handlers'[h].source = None)]_vars

\* A DO=1 query missed a fresh entry that was cached for a DO=0 query.
C6_Witness ==
    \E h \in HandlerIds :
        /\ handlers[h].pc = "upstream"
        /\ handlers[h].dnssec
        /\ handlers[h].cache_why = "no_dnssec"
        /\ handlers[h].hit_origin # None
        /\ ~handlers[h].hit_origin[1].query.dnssec

Max0(n) == IF n > 0 THEN n ELSE 0

\* The hash under which rr_cache holds a record.
RecordKey(rr) == CachedRecord_get_hash(CachedRecord_new(rr, FALSE, 0))

\* The handlers that were answered by a cache hit.
Hits == {h \in HandlerIds : handlers[h] # NoHandler /\ handlers[h].source = Some("Cache")}

\* C7 as stated: every record served on a cache hit has TTL max(0, stored_ttl -
\* elapsed), with stored_ttl the TTL of the record in the upstream response
\* that was cached for the served question and elapsed the seconds since that
\* response was cached.
C7_TtlOfServedQuestion ==
    \A h \in Hits :
        LET hd == handlers[h]
            stored == hd.hit_origin[1].query
        IN /\ Len(hd.response_packet.answers) = Len(stored.response.answers)
           /\ \A i \in 1..Len(hd.response_packet.answers) :
                hd.response_packet.answers[i].ttl =
                    Max0(stored.response.answers[i].ttl - (hd.hit_at - stored.at))

\* C7: every record served on a cache hit has TTL max(0, stored_ttl - elapsed),
\* never below 0, with stored_ttl the TTL the record carried in the response
\* cached last among those with a record of the same name, type, class and
\* data, whatever question that response answered, and elapsed the seconds
\* since that response was cached.
C7_TtlOfLatestRecord ==
    \A h \in Hits :
        LET hd == handlers[h]
            records == hd.hit_origin[1].records
        IN \A i \in 1..Len(hd.response_packet.answers) :
            LET rr == hd.response_packet.answers[i]
            IN /\ RecordKey(rr) \in DOMAIN records
               /\ rr.ttl >= 0
               /\ rr.ttl = Max0(records[RecordKey(rr)].ttl
                                    - (hd.hit_at - records[RecordKey(rr)].at))

\* A hit served a record whose stored TTL was smaller than the time elapsed
\* since it was cached.
C7_Witness ==
    \E h \in Hits :
        /\ handlers[h].response_packet.answers # <<>>
        /\ LET rr == handlers[h].response_packet.answers[1]
               origin == handlers[h].hit_origin[1].records[RecordKey(rr)]
           IN origin.ttl < handlers[h].hit_at - origin.at

----------------------------------------------------------------------------
(* Claims about the commands *)

\* C10: once the server has processed AddNewListEntry(DenyDomain(h)) with h the
\* hash of a name, every query for that name accepted afterwards is decided by
\* the denylist stage: its response has AA=1 and source Denylist and no later
\* stage is consulted, whether or not the cache holds the question.
C10_DenyCommandTakesEffect ==
    \A h \in HandlerIds :
        (/\ WellFormed(handlers[h])
         /\ DenyDomain(hash_to_u128(QuestionOf(handlers[h]).qname, NoPrefix))
                \in handlers[h].processed_at_accept
         /\ handlers[h].pc # "start")
        => (/\ handlers[h].source = Some("Denylist")
            /\ handlers[h].stages = <<"denylist">>
            /\ handlers[h].response_packet.header.is_authoritative
            /\ Done(handlers[h]) => handlers[h].log[1].source = Some("Denylist"))

\* A query accepted after the command was answered from the denylist while the
\* cache held an entry for its question.
C10_Witness ==
    \E h \in HandlerIds :
        /\ WellFormed(handlers[h])
        /\ Done(handlers[h])
        /\ DenyDomain(hash_to_u128(QuestionOf(handlers[h]).qname, NoPrefix))
                \in handlers[h].processed_at_accept
        /\ handlers[h].source = Some("Denylist")
        /\ InQueryCache(QuestionOf(handlers[h]))
        /\ ~EntryIsOld(KeyOf(handlers[h]), now)

----------------------------------------------------------------------------
(* Claims about the stages of resolve_query *)

\* The handler has left the 'resolve block of resolve_query.
Decided(hd) == hd # NoHandler /\ hd.pc \in {"encode", "done"}

\* The answers a denylisted name gets, by the query type alone.
SinkholeAnswers(question) ==
    CASE question.query_type \in {TypeA, TypeANY} ->
            <<ResourceRecord(question.qname, RecordA("0.0.0.0"), 180, IN_CLASS)>>
      [] question.query_type = TypeAAAA ->
            <<ResourceRecord(question.qname, RecordAAAA("::"), 180, IN_CLASS)>>
      [] OTHER -> <<>>

\* C11: a query whose name is in the denylist is decided by the denylist: its
\* response has AA=1 and rcode Success, its answers are one A record 0.0.0.0
\* with TTL 180 for type A or ANY, one AAAA record :: with TTL 180 for type
\* AAAA and none for any other type, the answer count of the header is the
\* number of answers, and the response is sent.
C11_DenylistAnswer ==
    \A h \in HandlerIds :
        LET hd == handlers[h]
        IN (Decided(hd) /\ WellFormed(hd) /\ contains_entry(denylist, QuestionOf(hd).qname))
            => /\ hd.source = Some("Denylist")
               /\ hd.response_packet.header.is_authoritative
               /\ hd.response_packet.header.response_code = "Success"
               /\ hd.response_packet.answers = SinkholeAnswers(QuestionOf(hd))
               /\ hd.response_packet.header.answer_rr_count = Len(hd.response_packet.answers)
               /\ hd.pc = "done" => hd.result = "ok" /\ hd.sent

C11_Witness ==
    \E h \in HandlerIds :
        /\ WellFormed(handlers[h]) /\ handlers[h].pc = "done" /\ handlers[h].sent
        /\ QuestionOf(handlers[h]) = Question(NameCAB, TypeANY)
        /\ contains_entry(denylist, NameCAB)
        /\ Len(handlers[h].response_packet.answers) = 1

\* The records of the hosts entry of a question that match its type, as
\* answers with TTL 180, in stored order.
HostsAnswers(map, question) ==
    LET matching == SelectSeq(get_entry(map, question.qname)[1],
                        LAMBDA rdata : \/ question.query_type = TypeANY
                                       \/ get_query_type(rdata) = question.query_type)
    IN [i \in 1..Len(matching) |->
            ResourceRecord(question.qname, matching[i], 180, IN_CLASS)]

\* C12: whenever the hosts list holds an entry (exact or wildcard) for the
\* queried name and the name is not in the denylist, the query is decided with
\* source Allowlist and AA=1 without a cache lookup or an upstream call,
\* whatever the query type, and its answers are the stored records of the
\* asked type (all of them for ANY) in stored order with TTL 180.
C12_HostsEntryDecides ==
    \A h \in HandlerIds :
        LET hd == handlers[h]
        IN (/\ Decided(hd) /\ WellFormed(hd)
            /\ get_entry(hosts, QuestionOf(hd).qname) # None
            /\ ~contains_entry(denylist, QuestionOf(hd).qname))
            => /\ hd.source = Some("Allowlist")
               /\ hd.response_packet.header.is_authoritative
               /\ \A i \in 1..Len(hd.stages) : hd.stages[i] \notin {"cache", "upstream"}
               /\ hd.response_packet.answers = HostsAnswers(hosts, QuestionOf(hd))

\* C13: a decoded query whose question count is not exactly one, zero as well
\* as two or more, is answered with rcode FormatError and reaches none of the
\* denylist, hosts, cache and upstream stages.
C13_QuestionCountNotOne ==
    \A h \in HandlerIds :
        LET hd == handlers[h]
        IN (/\ hd # NoHandler
            /\ hd.pc # "start"
            /\ hd.parsed_packet # None
            /\ Len(hd.parsed_packet[1].questions) # 1)
            => /\ hd.stages = <<>>
               /\ hd.response_packet.header.response_code = "FormatError"
               /\ hd.pc = "done" => hd.result = "ok" /\ hd.sent

\* C14: a message that fails to decode is answered, with rcode FormatError,
\* only if its 12-byte header parsed; a message whose header did not parse is
\* dropped and gets no reply.
C14_ReplyOnlyIfHeaderParsed ==
    \A h \in HandlerIds :
        LET hd == handlers[h]
        IN (hd # NoHandler /\ hd.parsed_packet = None /\ hd.pc = "done")
            => IF hd.header_parsed
               THEN hd.sent /\ hd.response_packet.header.response_code = "FormatError"
               ELSE ~hd.sent

C16_UpstreamReadEnds ==
    (probe.kind = "upstream" /\ probe.pc = "read")
        ~> (probe.kind = "upstream" /\ probe.pc = "returned")

\* C17: the failure of the handler of one query cancels no other handler: a
\* handler leaves the set of in-flight handlers only after it has run to
\* its end, whatever happens to the handlers beside it.
C17_NoSiblingCancelled ==
    [][\A h \in HandlerIds :
        (handlers[h] # NoHandler /\ handlers'[h] = NoHandler) => handlers[h].pc = "done"]_vars

\* The names of a packet, and whether each of their labels fits the 63 bytes
\* a length byte can announce.
PacketNames(packet) ==
    {packet.questions[i].qname : i \in 1..Len(packet.questions)}
        \cup {packet.answers[i].name : i \in 1..Len(packet.answers)}
        \cup {packet.authorities[i].name : i \in 1..Len(packet.authorities)}
        \cup {packet.additionals[i].name : i \in 1..Len(packet.additionals)}

LabelsFit(packet) ==
    \A name \in PacketNames(packet) :
        \A i \in 1..Len(split(name)) : Len(split(name)[i]) <= MAX_LABEL_LEN

\* 12 bytes of header and the OPT record of the packet, if it has one.
MinMaxSize(packet) ==
    12 + (IF packet_edns_data(packet) = None THEN 0
          ELSE rr_get_encoded_size(packet.additionals[packet.edns[1] + 1], <<>>))

Encoded == probe.kind = "encode" /\ probe.pc = "encoded"

\* C18 as stated: for every packet and every max_size of at least 12 bytes
\* plus the OPT record, encode_to_buf succeeds and appends at most max_size
\* bytes, whatever the names of the packet.
C18_EncodeWithinMaxSize_AnyName ==
    (Encoded /\ probe.max_size # None /\ probe.max_size[1] >= MinMaxSize(probe.packet)) =>
        probe.out.ok /\ probe.out.written <= probe.max_size[1]

\* C18, amended: the same for every packet whose names have no label of more
\* than 63 bytes.
C18_EncodeWithinMaxSize ==
    (/\ Encoded /\ probe.max_size # None
     /\ probe.max_size[1] >= MinMaxSize(probe.packet)
     /\ LabelsFit(probe.packet)) =>
        /\ probe.out.ok
        /\ probe.out.written <= probe.max_size[1]
        /\ probe.out.written <= probe.out.size

\* A packet with a question, compressed names and an OPT record that had to
\* lose a record to fit.
C18_Witness ==
    /\ Encoded /\ probe.max_size # None
    /\ probe.max_size[1] >= MinMaxSize(probe.packet)
    /\ LabelsFit(probe.packet)
    /\ probe.packet.edns # None
    /\ Len(probe.packet.questions) = 2 /\ Len(probe.packet.answers) = 2
    /\ probe.out.ok /\ probe.out.truncation
    /\ probe.out.written = probe.max_size[1]

\* The positions of the records of a section that are not the OPT record.
NonOptPositions(records) ==
    SelectSeq([i \in 1..Len(records) |-> i],
              LAMBDA i : get_query_type(records[i].resource_data) # TypeOPT)

\* kept, a list of positions, without those of positions it does not hold.
KeptOf(kept, positions) ==
    SelectSeq(kept, LAMBDA i : \E j \in 1..Len(positions) : positions[j] = i)

\* C19: a size-bounded encoding keeps, in every section, a prefix of the
\* records of the packet: no question, answer, authority or additional
\* record other than the OPT record is written after an earlier record of its
\* section was skipped.
C19_KeptIsPrefix ==
    (Encoded /\ probe.out.ok) =>
        /\ IsPrefix(probe.out.kept.questions, [i \in 1..Len(probe.packet.questions) |-> i])
        /\ IsPrefix(probe.out.kept.answers, [i \in 1..Len(probe.packet.answers) |-> i])
        /\ IsPrefix(probe.out.kept.authorities,
                    [i \in 1..Len(probe.packet.authorities) |-> i])
        /\ IsPrefix(KeptOf(probe.out.kept.additionals,
                           NonOptPositions(probe.packet.additionals)),
                    NonOptPositions(probe.packet.additionals))

\* C20: after a size-bounded encoding the header in the buffer announces what
\* was written.  If a record was skipped, the TC bit is set, the other flags
\* and the id are those of the packet and every count is the number of
\* records written in its section; if none was skipped the header is the
\* packet's own, and then too every count is the number of records written.
C20_HeaderMatchesOutput ==
    (Encoded /\ probe.max_size # None /\ probe.out.ok) =>
        LET packet == probe.packet
            out == probe.out
            skipped == \/ Len(out.kept.questions) < Len(packet.questions)
                       \/ Len(out.kept.answers) < Len(packet.answers)
                       \/ Len(out.kept.authorities) < Len(packet.authorities)
                       \/ Len(out.kept.additionals) < Len(packet.additionals)
        IN /\ out.truncation <=> skipped
           /\ out.header.id = packet.header.id
           /\ out.header.question_count = Len(out.kept.questions)
           /\ out.header.answer_rr_count = Len(out.kept.answers)
           /\ out.header.authority_rr_count = Len(out.kept.authorities)
           /\ out.header.additional_rr_count = Len(out.kept.additionals)
           /\ IF skipped
              THEN /\ (out.header.flags \div 512) % 2 = 1
                   /\ out.header.flags =
                        get_flags(packet.header) + (IF packet.header.truncation THEN 0 ELSE 512)
              ELSE /\ out.header.flags = get_flags(packet.header)
                   /\ out.header.question_count = packet.header.question_count
                   /\ out.header.answer_rr_count = packet.header.answer_rr_count
                   /\ out.header.authority_rr_count = packet.header.authority_rr_count
                   /\ out.header.additional_rr_count = packet.header.additional_rr_count

\* A response without the TC bit that lost an answer and an additional record
\* and kept its OPT record.
C20_Witness ==
    /\ Encoded /\ probe.max_size # None /\ probe.out.ok
    /\ ~probe.packet.header.truncation /\ probe.packet.header.is_response
    /\ probe.packet.edns # None
    /\ Len(probe.out.kept.answers) = 1 /\ Len(probe.packet.answers) = 2
    /\ Len(probe.out.kept.additionals) = 1 /\ Len(probe.packet.additionals) = 2
    /\ probe.out.truncation

\* Encoding a packet that has an OPT record needs 12 bytes for the header and
\* the size of that record.
OptTooBig ==
    /\ probe.packet.edns # None
    /\ probe.max_size[1] < MinMaxSize(probe.packet)

\* C21: encode_to_buf with a max_size below 12 bytes, or below 12 bytes plus
\* the size of the OPT record of the packet, returns an error and leaves the
\* buffer empty.
C21_TooSmallFailsEmpty ==
    (Encoded /\ probe.max_size # None /\ (probe.max_size[1] < 12 \/ OptTooBig)) =>
        /\ ~probe.out.ok
        /\ probe.out.written = 0 /\ probe.out.buf = <<>>

\* A packet with a question and an OPT record, refused for a max_size that
\* holds the header and not the OPT record.
C21_Witness ==
    /\ Encoded /\ probe.max_size # None
    /\ probe.max_size[1] >= 12 /\ OptTooBig
    /\ Len(probe.packet.questions) > 0
    /\ ~probe.out.ok /\ probe.out.written = 0

\* C22: when the packet has an OPT record and max_size holds the header and
\* that record, an encoding that succeeds has written the OPT record,
\* whatever else it skipped: the record is among those kept and is the one OPT
\* record of the packet decoded from the buffer.
C22_OptAlwaysWritten ==
    (/\ Encoded /\ probe.max_size # None /\ probe.out.ok
     /\ probe.packet.edns # None) =>
        LET decoded == DnsPacket_from_buf(probe.out.buf)
        IN /\ \E k \in 1..Len(probe.out.kept.additionals) :
                probe.out.kept.additionals[k] = probe.packet.edns[1] + 1
           /\ decoded.ok /\ decoded.packet.edns # None
           /\ decoded.packet.additionals[decoded.packet.edns[1] + 1]
                = probe.packet.additionals[probe.packet.edns[1] + 1]

\* A max_size of exactly the header and the OPT record: the question, the
\* answers and the other additional record are skipped, the OPT record is
\* written.
C22_Witness ==
    /\ Encoded /\ probe.max_size # None /\ probe.out.ok
    /\ probe.packet.edns = Some(1)
    /\ probe.max_size[1] = MinMaxSize(probe.packet)
    /\ Len(probe.packet.questions) > 0 /\ Len(probe.packet.answers) > 0
    /\ probe.out.truncation
    /\ probe.out.kept.additionals = <<2>>
    /\ probe.out.written = probe.max_size[1]

\* The pairs <<i, j>> of label positions from which two names are the same
\* run of labels to their ends.
SharedSuffixes(first, second) ==
    {<<i, j>> \in (1..Len(split(first))) \X (1..Len(split(second))) :
        Last(splitn(first, i)) = Last(splitn(second, j))}

\* A name without an empty label and without a label of more than 63 bytes.
PlainName(name) ==
    \A i \in 1..Len(split(name)) : Len(split(name)[i]) \in 1..MAX_LABEL_LEN

\* C25: when the second name written into a buffer ends in labels the first
\* name ends in, write_qname writes the labels of the second name before the
\* shared ones and then a two-byte pointer to the offset at which the first
\* name holds them, and read_qname reads the second name back.
C25_SharedSuffixWrittenOnce ==
    (/\ probe.kind = "qname" /\ Len(probe.names) >= 2 /\ Len(probe.written) >= 2
     /\ PlainName(probe.names[1]) /\ PlainName(probe.names[2])
     /\ SharedSuffixes(probe.names[1], probe.names[2]) # {}) =>
        LET first == probe.names[1]
            second == probe.names[2]
            longest == CHOOSE p \in SharedSuffixes(first, second) :
                            \A q \in SharedSuffixes(first, second) : p[2] <= q[2]
            shared == Last(splitn(second, longest[2]))
            leading == Len(second) - Len(shared)
            at == probe.written[2].start + leading
            target == probe.written[1].start + (Len(first) - Len(shared))
        IN /\ probe.written[2].ok
           /\ probe.written[2].len = leading + 2
           /\ peek_u16(probe.buf, at) = 49152 + target
           /\ Len(probe.read) >= 2 =>
                probe.read[2].ok /\ probe.read[2].qname = second

\* C26: read_qname returns an error when the name starts with a length byte
\* of 64 to 191, and write_qname accepts every name read_qname returns.
C26_OverlongLabelRejected ==
    (probe.kind = "qname" /\ probe.read # <<>>) =>
        /\ (/\ probe.names = <<>> /\ probe.buf # <<>>
            /\ probe.buf[1] \in (MAX_LABEL_LEN + 1)..191) => ~probe.read[1].ok
        /\ probe.pc = "rewritten" => probe.again.ok

\* Every name of a packet: the names of PacketNames and the names held in the
\* data of NS and CNAME records.
AllNames(packet) ==
    PacketNames(packet)
        \cup UNION {{section[i].resource_data.data : i \in
                        {j \in 1..Len(section) :
                            get_query_type(section[j].resource_data)
                                \in {TypeNS, TypeCNAME}}} :
                    section \in {packet.answers, packet.authorities, packet.additionals}}

\* A valid packet: its header counts are the lengths of its sections, no
\* label of its names has more than 63 bytes and it has at most one OPT
\* record.
ValidPacket(packet) ==
    /\ packet.header.question_count = Len(packet.questions)
    /\ packet.header.answer_rr_count = Len(packet.answers)
    /\ packet.header.authority_rr_count = Len(packet.authorities)
    /\ packet.header.additional_rr_count = Len(packet.additionals)
    /\ \A name \in AllNames(packet) :
            \A i \in 1..Len(split(name)) : Len(split(name)[i]) <= MAX_LABEL_LEN
    /\ Cardinality({i \in 1..Len(packet.additionals) :
                        get_query_type(packet.additionals[i].resource_data) = TypeOPT}) <= 1

\* C24: a valid packet encoded without a max_size is encoded without error,
\* the size returned is the number of bytes written, and decoding those
\* bytes gives a packet equal to the one encoded.
C24_RoundTrip ==
    (probe.kind = "encode" /\ probe.max_size = None /\ ValidPacket(probe.packet)) =>
        /\ probe.pc = "encoded" =>
                probe.out.ok /\ probe.out.size = probe.out.written
        /\ probe.pc = "decoded" =>
                probe.decoded.ok /\ probe.decoded.packet = probe.packet

\* The size the requestor announced in the OPT record of its query, if the
\* query decoded and carried one.
RequestorSize(hd) ==
    IF hd.parsed_packet = None THEN None
    ELSE IF packet_edns_data(hd.parsed_packet[1]) = None THEN None
    ELSE Some(packet_edns_data(hd.parsed_packet[1])[1].udp_payload_size)

\* The limit on a UDP response as stated: 512 bytes without an OPT record in
\* the query, the announced size up to DEFAULT_EDNS_BUF_CAPACITY with one.
StatedUdpLimit(hd) ==
    IF RequestorSize(hd) = None THEN MAX_STANDARD_DNS_MSG_SIZE
    ELSE Min({RequestorSize(hd)[1], DEFAULT_EDNS_BUF_CAPACITY})

\* C23: every response handed to a UDP connection is at most 512 bytes long
\* when the query carried no OPT record and at most min(requestor size, 1232)
\* bytes long when it did, and it has TC=1 when the full response is longer
\* than that; a response handed to a TCP connection is the full response.
C23_UdpResponseBounded ==
    \A h \in HandlerIds :
        (handlers[h] # NoHandler /\ handlers[h].dst # None) =>
            \E full \in {encode_to_buf(handlers[h].response_packet, None).written} :
                IF handlers[h].is_tcp
                THEN handlers[h].dst[1].len = full /\ ~handlers[h].dst[1].tc
                ELSE /\ handlers[h].dst[1].len <= StatedUdpLimit(handlers[h])
                     /\ full > StatedUdpLimit(handlers[h]) => handlers[h].dst[1].tc

\* The positions of the OPT records in a list of records.
OptPositions(rrs) == {i \in 1..Len(rrs) : rrs[i].resource_data.qtype.tag = "OPT"}

\* At most one OPT record, at index edns, and one exactly when wanted.
OneOptAtEdns(packet, wanted) ==
    /\ Cardinality(OptPositions(packet.additionals)) <= 1
    /\ OptPositions(packet.additionals) = {e + 1 : e \in {packet.edns[i] : i \in 1..Len(packet.edns)}}
    /\ (packet.edns # None) <=> wanted

\* C27: decoding a packet with two OPT records fails, and every response
\* resolve_query encodes, as a packet and as the bytes it is encoded to, has
\* at most one OPT record, at index edns of its additionals, and has one
\* exactly when the decoded request carried an OPT record.
C27_AtMostOneOpt ==
    /\ \A query \in RespondQueries, is_tcp \in BOOLEAN :
            Cardinality(OptPositions(query.additionals)) > 1
                => WireQuery(query, is_tcp).parsed_packet = None
    /\ \A h \in HandlerIds :
        (handlers[h] # NoHandler /\ handlers[h].dst # None) =>
            \E wanted \in {RequestorSize(handlers[h]) # None},
               sent \in {DnsPacket_from_buf(
                            encode_to_buf(handlers[h].response_packet,
                                          response_max_size(handlers[h].is_tcp,
                                                            RequestorSize(handlers[h]))).buf)} :
                /\ OneOptAtEdns(handlers[h].response_packet, wanted)
                /\ sent.ok /\ OneOptAtEdns(sent.packet, wanted)

\* An upstream reply with an additional record and an OPT record of its own
\* was turned into the response to a query with an OPT record.
C27_Witness ==
    \E h \in HandlerIds :
        /\ handlers[h] # NoHandler /\ handlers[h].dst # None
        /\ handlers[h].source = Some("Upstream")
        /\ RequestorSize(handlers[h]) # None
        /\ Len(handlers[h].response_packet.additionals) = 2

\* The header fields a response takes from its request.
EchoesRequest(header, request) ==
    /\ header.is_response /\ header.recursion_available
    /\ header.id = request.header.id
    /\ header.recursion_desired = request.header.recursion_desired
    /\ header.z[3] = request.header.z[3]

\* C28: every response to a decoded query, as a packet and as the bytes it
\* is encoded to, has QR=1 and RA=1 and the id, the RD bit and the CD bit of
\* the request, whichever stage produced it.
C28_HeaderEchoesRequest ==
    \A h \in HandlerIds :
        (handlers[h] # NoHandler /\ handlers[h].dst # None /\ handlers[h].parsed_packet # None) =>
            \E sent \in {DnsPacket_from_buf(
                            encode_to_buf(handlers[h].response_packet,
                                          response_max_size(handlers[h].is_tcp,
                                                            RequestorSize(handlers[h]))).buf)} :
                /\ EchoesRequest(handlers[h].response_packet.header, handlers[h].parsed_packet[1])
                /\ sent.ok /\ EchoesRequest(sent.packet.header, handlers[h].parsed_packet[1])

\* The upstream reply, whose header has the id 0, RD=0, RA=0 and CD=0, was
\* turned into the response to the query with the id 9, RD=1 and CD=1.
C28_Witness ==
    \E h \in HandlerIds :
        /\ handlers[h] # NoHandler /\ handlers[h].dst # None
        /\ handlers[h].source = Some("Upstream") /\ ~handlers[h].upstream_failed
        /\ handlers[h].parsed_packet # None
        /\ handlers[h].parsed_packet[1].header.id = 9
        /\ handlers[h].parsed_packet[1].header.recursion_desired
        /\ handlers[h].parsed_packet[1].header.z[3]

\* The answering stages a log record names.
LogSources == {"Denylist", "Allowlist", "Cache", "NoRecurse", "Upstream"}

\* The handler of a query that decoded with one question has finished, and
\* its response can be encoded within the size its connection allows.
EncodedOneQuestion(hd) ==
    /\ hd # NoHandler /\ hd.pc = "done"
    /\ hd.parsed_packet # None
    /\ hd.parsed_packet[1].header.question_count = 1
    /\ Len(hd.parsed_packet[1].questions) = 1
    /\ encode_to_buf(hd.response_packet,
                     response_max_size(hd.is_tcp, RequestorSize(hd))).ok

WithoutOpt(section) == SelectSeq(section, LAMBDA rr : rr.resource_data.qtype.tag # "OPT")

\* The caching duration of a response as the table gives it.
TableCacheFor(response) ==
    LET rrs == WithoutOpt(response.answers) \o WithoutOpt(response.authorities)
                    \o WithoutOpt(response.additionals)
        rcode == response.header.response_code
    IN CASE rcode = "Success" ->
                IF rrs = <<>> THEN 300
                ELSE CHOOSE ttl \in {rrs[i].ttl : i \in 1..Len(rrs)} :
                        \A i \in 1..Len(rrs) : ttl <= rrs[i].ttl
         [] rcode \in {"Refused", "NameError"} -> 60
         [] rcode = "ServerFailure" -> 30
         [] rcode = "NotImplemented" -> 300
         [] rcode \in {"FormatError", "Unknown"} -> 0

\* The list of a section in a cached query holds, in order, one hash for each
\* record of the section that is not an OPT record, and rr_cache holds that
\* record under the hash.
SectionStored(list, section, rr_cache) ==
    LET rrs == WithoutOpt(section)
    IN IF rrs = <<>> THEN list = None
       ELSE /\ list # None /\ Len(list[1]) = Len(rrs)
            /\ \A i \in 1..Len(rrs) :
                /\ list[1][i] \in DOMAIN rr_cache
                /\ rr_cache[list[1][i]].qname = rrs[i].name
                /\ rr_cache[list[1][i]].resource_data = rrs[i].resource_data

\* C30: cache_response stores an entry for the response's question exactly
\* when the caching duration the table gives for the response is 15 or more;
\* the entry's ttd is that duration and its section lists hold one record
\* entry for each record that is not an OPT record; below 15 the cache stays
\* as it was.
C30_StoredWhenCacheForAtLeast15 ==
    (probe.kind = "cache" /\ probe.pc = "cached") =>
        LET response == probe.response
            cache_for == TableCacheFor(response)
            hash == get_dns_query_hash(response.questions[1])
            after == probe.out.cache
        IN /\ probe.out.ok
           /\ probe.out.stored <=> cache_for >= 15
           /\ cache_for < 15 => after = probe.cache
           /\ cache_for >= 15 =>
                /\ hash \in DOMAIN after.query_cache
                /\ after.query_cache[hash].ttd = cache_for
                /\ after.query_cache[hash].added = probe.t
                /\ SectionStored(after.query_cache[hash].answers, response.answers,
                                 after.rr_cache)
                /\ SectionStored(after.query_cache[hash].authorities, response.authorities,
                                 after.rr_cache)
                /\ SectionStored(after.query_cache[hash].additionals, response.additionals,
                                 after.rr_cache)

\* A Success response whose records have a least TTL of 15, besides an OPT
\* record, was stored in a cache that held an earlier entry.
C30_Witness ==
    /\ probe.kind = "cache" /\ probe.pc = "cached"
    /\ probe.response.header.response_code = "Success"
    /\ probe.response.edns # None
    /\ TableCacheFor(probe.response) = 15
    /\ probe.cache # EmptyCache
    /\ probe.out.stored

\* The locks a task holds, by the state of the locks.
HeldBy(t) == {l \in LockNames : t \in probe.lock[l].readers \cup probe.lock[l].writer}

\* t waits for a lock that u holds or was asked for earlier by u.
WaitsFor(t, u) ==
    /\ probe.task[t].waits
    /\ LET lock == probe.lock[stage_lock(probe.task[t].pc).lock]
       IN \/ u \in lock.readers \cup lock.writer
          \/ \E i, j \in 1..Len(lock.queue) : i < j /\ lock.queue[i] = u /\ lock.queue[j] = t

\* The tasks t waits for, directly or through others.
RECURSIVE WaitsForClosure(_, _)
WaitsForClosure(reached, n) ==
    IF n = 0 THEN reached
    ELSE WaitsForClosure(
            reached \cup {u \in LockTasks : \E t \in reached : t # u /\ WaitsFor(t, u)}, n - 1)

\* C31: a task holds at most one of the denylist, hosts and cache locks, asks
\* for a lock only while it holds none, and holds none while it waits for the
\* upstream call or sends the response; no task waits, through any chain of
\* tasks, for a lock held or awaited by itself.
C31_OneLockAtATime ==
    probe.kind = "locks" =>
        \A t \in LockTasks :
            /\ Cardinality(HeldBy(t)) <= 1
            /\ HeldBy(t) = probe.task[t].held
            /\ probe.task[t].waits => HeldBy(t) = {}
            /\ probe.task[t].pc \in {"upstream", "encode", "send", "done", "idle"} => HeldBy(t) = {}
            /\ t \notin WaitsForClosure({u \in LockTasks : WaitsFor(t, u)}, Cardinality(LockTasks))

\* Two query subtasks read the denylist together while the command
\* processing waits to write it.
C31_Witness ==
    /\ probe.kind = "locks"
    /\ probe.lock["denylist"].readers = 1..MaxLockQueries
    /\ probe.task[CommandTask].waits
    /\ probe.task[CommandTask].pc = "list_denylist"

\* The handler has finished with a response it handed to the connection.
Answered(hd) == hd # NoHandler /\ hd.pc = "done" /\ hd.dst # None

\* The response of the handler was built from a reply of the upstream
\* resolver.
FromUpstream(hd) ==
    Answered(hd) /\ hd.source = Some("Upstream") /\ hd.upstream_response # None

\* The AD bit of a response built from an upstream reply is the reply's, and
\* so is the AD flag of the cache entry made from the response.
C32_UpstreamAd(hd) ==
    FromUpstream(hd) =>
        /\ hd.response_packet.header.z[2] = hd.upstream_response[1].header.z[2]
        /\ LET hash == get_dns_query_hash(hd.response_packet.questions[1])
           IN (get_caching_duration_for_packet(hd.response_packet) >= 15
                    /\ hd.response_packet.questions # <<>>) =>
                /\ hash \in DOMAIN cache.query_cache
                /\ cache.query_cache[hash].flags.AD = hd.upstream_response[1].header.z[2]

\* The AD bit of a response served from the cache is the AD flag of the cached
\* query, and with the flag set every record served is held with the AD flag.
C32_CacheAd(hd) ==
    (Answered(hd) /\ hd.source = Some("Cache")) =>
        LET hash == get_dns_query_hash(hd.parsed_packet[1].questions[1])
            served == NonOptRecords(hd.response_packet.answers \o hd.response_packet.authorities
                                        \o hd.response_packet.additionals)
        IN /\ hash \in DOMAIN cache.query_cache
           /\ hd.response_packet.header.z[2] = cache.query_cache[hash].flags.AD
           /\ cache.query_cache[hash].flags.AD =>
                \A i \in 1..Len(served) :
                    LET rr_hash == CachedRecord_get_hash(CachedRecord_new(served[i], TRUE, 0))
                    IN rr_hash \in DOMAIN cache.rr_cache /\ cache.rr_cache[rr_hash].flags.AD

\* C32: the AD bit of a response sourced from Upstream equals the AD bit of
\* the upstream reply, and so does the AD flag of the resulting cache entry;
\* the AD bit of a response served from the cache equals the AD flag of the
\* cached query, and with the flag set only records cached with the AD flag
\* are served.
C32_AdBitFollowsSource ==
    \A h \in HandlerIds : C32_UpstreamAd(handlers[h]) /\ C32_CacheAd(handlers[h])

\* C33: whatever the peers do - a query waiting for the upstream resolver, a
\* TCP client that has connected and not yet sent its length or its message -
\* the worker receives a datagram that waits in the socket and accepts a
\* connection that waits in the backlog.
C33_AcceptLoopNeverBlocked ==
    probe.kind = "accept" =>
        /\ probe.udp > 0 => ENABLED LoopRecvFrom
        /\ probe.backlog > 0 => ENABLED LoopAccept

\* C34: a response sourced from Upstream has the response code of the
\* upstream reply, and a response served from the cache has the response code
\* of the response the cache entry was made from.
C34_RcodeUnchanged ==
    \A h \in HandlerIds :
        /\ FromUpstream(handlers[h]) =>
                handlers[h].response_packet.header.response_code
                    = handlers[h].upstream_response[1].header.response_code
        /\ (Answered(handlers[h]) /\ handlers[h].source = Some("Cache")
                /\ handlers[h].hit_origin # None) =>
                handlers[h].response_packet.header.response_code
                    = handlers[h].hit_origin[1].query.response.header.response_code

\* C35: a cache lookup that returns a miss leaves the response packet as it
\* was, and a response built from an upstream reply holds the records of the
\* reply, OPT records aside, and nothing else.
C35_MissLeavesPacket ==
    [][\A h \in HandlerIds :
        /\ (handlers[h] # NoHandler /\ handlers[h].pc = "cache"
                /\ handlers'[h].pc = "upstream") =>
                handlers'[h].response_packet = handlers[h].response_packet
        /\ (handlers[h] # NoHandler /\ handlers[h].pc = "upstream"
                /\ handlers'[h].upstream_response # None) =>
                /\ handlers'[h].response_packet.answers
                        = handlers'[h].upstream_response[1].answers
                /\ handlers'[h].response_packet.authorities
                        = handlers'[h].upstream_response[1].authorities
                /\ NonOptRecords(handlers'[h].response_packet.additionals)
                        = NonOptRecords(handlers'[h].upstream_response[1].additionals)
                /\ handlers'[h].response_packet.header.z[2]
                        = handlers'[h].upstream_response[1].header.z[2]]_vars

\* C36: when resolve_query finishes the query of a client for the question q,
\* the response carries q as its question, and no cache entry other than that
\* of q is created or changed.
C36_CachedUnderOwnQuestion ==
    [][\A h \in HandlerIds :
        (handlers[h] # NoHandler /\ handlers[h].pc = "encode" /\ handlers'[h].pc = "done"
            /\ handlers[h].parsed_packet # None
            /\ Len(handlers[h].parsed_packet[1].questions) = 1) =>
            LET q == handlers[h].parsed_packet[1].questions[1]
            IN /\ handlers'[h].response_packet.questions = <<q>>
               /\ \A key \in DOMAIN cache'.query_cache :
                    key # get_dns_query_hash(q) =>
                        /\ key \in DOMAIN cache.query_cache
                        /\ cache'.query_cache[key] = cache.query_cache[key]]_vars

\* C37: a response has AA=1 only if its source is Denylist or Allowlist:
\* responses from Upstream, Cache and NoRecurse and FormatError responses
\* have AA=0.
C37_AaOnlyFromLists ==
    \A h \in HandlerIds :
        (Answered(handlers[h]) /\ handlers[h].response_packet.header.is_authoritative) =>
            handlers[h].source \in {Some("Denylist"), Some("Allowlist")}

\* C38: the packet a worker parses from a message is the packet it parses
\* from the same message when nothing was received before it.
C38_ParsedFromMessageOnly ==
    (probe.kind = "recv" /\ probe.parsed # None) =>
        probe.parsed[1] = DnsPacket_from_buf(recv_into(FreshRecv, probe.message))

\* The 12 bytes of a header that announces one question and whose id, 0xC00C,
\* reads as a pointer to offset 12 when a name points at offset 0.
PointerHeader == <<192, 12, 1, 0, 0, 1, 0, 0, 0, 0, 0, 0>>

\* C39: decoding terminates on every input: every read_qname returns a name
\* or an error, and so does DnsPacket::from_buf on the packet whose question
\* is the bytes read.
C39_DecodingTerminates ==
    probe.kind = "qname" =>
        /\ probe.pc # "hangs"
        /\ \A i \in 1..Len(probe.read) : ~probe.read[i].hangs
        /\ (probe.names = <<>> /\ probe.read # <<>>) =>
                ~DnsPacket_from_buf(PointerHeader \o probe.buf).hangs

\* C40: removing undoes adding in the hosts list: when add_entry(h, r) on a
\* list that held no record under h is followed by remove_entry(h, type of r),
\* get_entry returns for every name what it returned before the add.
C40_RemoveUndoesAdd ==
    [][(/\ probe.kind = "hosts_add" /\ probe.ok
        /\ (probe.qname_hash \in DOMAIN probe.before => probe.before[probe.qname_hash] = <<>>)
        /\ HostsRemoveEntry(probe.qname_hash, get_query_type(probe.rdata)))
       => \A qname \in ListNames : get_entry(hosts', qname) = get_entry(probe.before, qname)]_vars

============================================================================
